---- MODULE Spec2Model ----
(***************************************************************************)
(* AguaRuta backend: the bulk file -> DB import (main.py sync_files_to_db  *)
(* behind /importar-excel-a-db and /importar-csv-a-db), the DB -> files    *)
(* backup (sync_db_to_files behind GET /rutas-activas) and the single      *)
(* point registrations (main.py add_ruta_activa and routers/rutas_activas  *)
(* registrar_nuevo_punto), as concurrent request handlers over one         *)
(* PostgreSQL table, its id sequence and the Excel/CSV files; and the      *)
(* random redistribution of new points (routers/redistribucion.py); the    *)
(* get_conn_cursor context manager and the two edit endpoints of           *)
(* routers/entregas.py; and the token check of main.py (jwt_decode,        *)
(* require_auth, require_admin) in front of the user, import, export and   *)
(* audit endpoints, with the delivery registration of the app.             *)
(*                                                                         *)
(* Numbers that pandas reads from a file are kept in tenths (125 is 12.5), *)
(* so that int() truncation is visible.                                    *)
(***************************************************************************)
EXTENDS Integers, Sequences, FiniteSets, TLC

\* ------------------------------------------------------------------ bounds
\* Longest batch (rows of the source file) the model enumerates.
MaxRows == 2

\* ------------------------------------------------------------- cell values
Num(n) == [k |-> "num", v |-> n]
NaN    == [k |-> "nan", v |-> 0]
Txt    == [k |-> "str", v |-> 0]
Null   == [k |-> "null", v |-> 0]

\* pd.notna(x): false for NaN and for None.
notna(x) == x.k \notin {"nan", "null"}

\* int(x) on a pandas cell: truncation toward zero; a non-numeric string raises.
PyIntRaises(x) == x.k = "str"
PyInt(x) == IF x.v >= 0 THEN Num((x.v \div 10) * 10)
            ELSE Num(-(((-x.v) \div 10) * 10))

\* float(x): the number itself; a non-numeric string raises.
PyFloatRaises(x) == x.k = "str"
PyFloat(x) == Num(x.v)

\* ------------------------------------------------------------------- rows
\* The protected vehicle of the roster: the code that CAMION_COLORS knows and
\* CAMIONES_VALIDOS leaves out.
ProtectedCode == "M3"

\* The vehicle codes the service knows (the keys of CAMION_COLORS).
CAMION_COLORS == {"A1", "A2", "A3", "A4", "A5", "M1", "M2", "M3"}

RowAna  == [id |-> 0, camion |-> "A1", nombre |-> "ANA", dia |-> "LUNES",
            litros |-> Num(125), telefono |-> "", latitud |-> Num(-330),
            longitud |-> Num(-716)]
RowAna2 == [id |-> 0, camion |-> "A2", nombre |-> "ANA", dia |-> "MARTES",
            litros |-> Num(7000), telefono |-> "", latitud |-> NaN,
            longitud |-> NaN]
RowProt == [id |-> 0, camion |-> "M3", nombre |-> "LUIS", dia |-> "LUNES",
            litros |-> NaN, telefono |-> "", latitud |-> NaN,
            longitud |-> NaN]
RowBad  == [id |-> 0, camion |-> "A1", nombre |-> "EVA", dia |-> "MARTES",
            litros |-> Txt, telefono |-> "", latitud |-> NaN,
            longitud |-> NaN]

SampleRows == {RowAna, RowAna2, RowBad}

\* Every batch the source file may hold at the start, up to MaxRows rows.
Batches == UNION {[1..n -> SampleRows] : n \in 0..MaxRows}

\* A file on disk: absent, a sheet of rows, or bytes that pandas cannot parse
\* (pd.read_excel / pd.read_csv raises).
NoFile     == [exists |-> FALSE, rows |-> <<>>, parsable |-> TRUE]
FileOf(rs) == [exists |-> TRUE, rows |-> rs, parsable |-> TRUE]
BadFile    == [exists |-> TRUE, rows |-> <<>>, parsable |-> FALSE]

\* The parameters of the INSERT of sync_files_to_db for one DataFrame row.
InsertRaises(r) ==
    \/ (notna(r.litros) /\ PyIntRaises(r.litros))
    \/ (notna(r.latitud) /\ PyFloatRaises(r.latitud))
    \/ (notna(r.longitud) /\ PyFloatRaises(r.longitud))

InsertParams(r, newid, ts) ==
    [id |-> newid, camion |-> r.camion, nombre |-> r.nombre,
     dia_asignado |-> r.dia,
     litros_entrega |-> IF notna(r.litros) THEN PyInt(r.litros) ELSE Null,
     telefono |-> r.telefono,
     latitud |-> IF notna(r.latitud) THEN PyFloat(r.latitud) ELSE Null,
     longitud |-> IF notna(r.longitud) THEN PyFloat(r.longitud) ELSE Null,
     updated_at |-> ts]

\* A DataFrame cell built from a fetched DB value: None becomes NaN.
FromDb(x) == IF x.k = "null" THEN NaN ELSE x

\* One row of the DataFrame of sync_db_to_files (RUTAS_COLUMNS).
RUTAS_COLUMNS(r) ==
    [id |-> r.id, camion |-> r.camion, nombre |-> r.nombre,
     dia |-> r.dia_asignado, litros |-> FromDb(r.litros_entrega),
     telefono |-> r.telefono, latitud |-> FromDb(r.latitud),
     longitud |-> FromDb(r.longitud)]

\* SELECT ... ORDER BY id: the rows of a table as a list, by increasing id.
RECURSIVE OrderById(_)
OrderById(S) ==
    IF S = {} THEN <<>>
    ELSE LET r == CHOOSE x \in S : \A y \in S : x.id <= y.id
         IN <<r>> \o OrderById(S \ {r})

\* pd.DataFrame(rows, columns=RUTAS_COLUMNS) over the fetched table.
Frame(T) == LET rows == OrderById(T)
            IN [i \in 1..Len(rows) |-> RUTAS_COLUMNS(rows[i])]

\* --------------------------------------------------------------- processes
Importers  == {"i1", "i2"}       \* POST /importar-excel-a-db, /importar-csv-a-db
Readers    == {"r1"}             \* GET /rutas-activas
Registrars == {"g1", "g2"}       \* POST /rutas-activas-excel/registrar-nuevo-punto
Adders     == {"a1", "a2"}       \* POST /rutas-activas
Redistributors == {"d1"}         \* POST /nueva-distribucion/redistribuir
EditoresRuta   == {"e1", "e2"}   \* PUT /editar-ruta
EditoresRedist == {"x1"}         \* PUT /editar-redistribucion
Editors    == EditoresRuta \cup EditoresRedist
UserAdmins == {"u1"}             \* POST/PUT/DELETE /usuarios
Auditors   == {"u2"}             \* GET /usuarios, /auditoria, the exports
Deliverers == {"t1"}             \* POST /entregas-app
Procs      == Importers \cup Readers \cup Registrars \cup Adders
                  \cup Redistributors \cup Editors \cup UserAdmins
                  \cup Auditors \cup Deliverers

NoTx == [status |-> "none", lock |-> "none", truncated |-> FALSE,
         inserted |-> {}, ts |-> 0, seq0 |-> 0]

VARIABLES
    rutas_activas,   \* committed rows of table rutas_activas
    rutas_seq,       \* next value of the table's id sequence
    EXCEL_FILE,      \* data/rutas_activas.xlsx
    CSV_FILE,        \* data/rutas_activas.csv
    now,             \* the store's clock (NOW())
    used,            \* processes holding a pool connection
    tx,              \* per process: the transaction open on its connection
    pc,              \* per process: position in its handler
    df,              \* per process: the DataFrame it holds
    idx,             \* per importer: next row of the INSERT loop
    result,          \* per process: the response returned to the caller
    before,          \* history: committed table when the import's TRUNCATE ran
    after,           \* history: committed table right after the import's commit
    complete,        \* history: initial table and the full result of each import
    overlapped,      \* history: two imports were in flight at the same time
    DATA_MODE,       \* "db" or "excel" (environment, fixed at start)
    RUTA_BASE,       \* data/base_datos_todos_con_coordenadas.xlsx
    punto,           \* per registration: the request body
    tablas,          \* committed rows of ruta_activa and of redistribucion
    ctx,             \* per process: its get_conn_cursor() context
    payload,         \* per editor: the request body
    id_ruta,         \* per editor: the id the handler resolved
    usuarios,        \* committed rows of table usuarios
    auditoria,       \* committed rows of table auditoria, oldest first
    entregas_app,    \* committed rows of table entregas_app
    authorization,   \* per process: the Authorization header of its request
    call             \* per process: endpoint and parameters of its request

regVars == <<DATA_MODE, RUTA_BASE, punto>>
entVars == <<tablas, ctx, payload, id_ruta>>
authVars == <<usuarios, auditoria, entregas_app, authorization, call>>

vars == <<rutas_activas, rutas_seq, EXCEL_FILE, CSV_FILE, now, used, tx, pc,
          df, idx, result, before, after, complete, overlapped, regVars,
          entVars, authVars>>

\* ------------------------------------------------------ request values
\* An Optional[...] field of a request model: None, or a value.
None == <<>>
Some(x) == <<x>>

\* EditarRutaPayload / EditarRedistribucionPayload with every field left out.
NoPayload == [id |-> None, camion |-> None, litros |-> None, dia |-> None,
              telefono |-> None, latitud |-> None, longitud |-> None,
              nombre |-> None, nombre_lookup |-> None]

\* A get_conn_cursor() context that was never entered: open while the with
\* block runs, exc the exception the block raised, write the pending UPDATE,
\* last how the latest __exit__ ended the transaction, gets/puts the calls of
\* pool.getconn() and pool.putconn().
NoCtx == [open |-> FALSE, exc |-> "", write |-> <<>>, last |-> "",
          gets |-> 0, puts |-> 0]

\* The payload of a token and a token: three dot-separated parts (header,
\* payload, signature), the signature being the HMAC of header and payload
\* under a key.
NoClaims == [sub |-> "", rol |-> "", exp |-> None]
NoToken == [parts |-> 0, header |-> "", payload |-> NoClaims,
            sig |-> [key |-> "", header |-> "", payload |-> NoClaims]]

\* Header(None): the request carries no Authorization header. A header is
\* "<scheme> <token>".
NoHeader == [present |-> FALSE, scheme |-> "", token |-> NoToken]

\* A request of the user, audit, export and delivery endpoints.
NoCall == [endpoint |-> "", usuario |-> "", password |-> None, rol |-> None,
           active |-> None, formato |-> "excel", nombre |-> "", camion |-> "",
           litros |-> 0, fecha |-> ""]

\* No edit request is being served.
IdleEdit ==
    /\ tablas = [ruta_activa |-> {}, redistribucion |-> {}]
    /\ ctx = [p \in Procs |-> NoCtx]
    /\ payload = [p \in Procs |-> NoPayload]
    /\ id_ruta = [p \in Procs |-> None]

\* No user, audit or delivery request is being served.
IdleAuth ==
    /\ usuarios = {}
    /\ auditoria = <<>>
    /\ entregas_app = {}
    /\ authorization = [p \in Procs |-> NoHeader]
    /\ call = [p \in Procs |-> NoCall]


\* ------------------------------------------------------------- the store
\* What one complete import stores from a batch: one row per batch row, in
\* batch order, ids from 1 (TRUNCATE ... RESTART IDENTITY, then the INSERTs).
StoredRows(batch, ts) == {InsertParams(batch[i], i, ts) : i \in 1..Len(batch)}

\* The table without the column NOW() fills.
Data(r) == [id |-> r.id, camion |-> r.camion, nombre |-> r.nombre,
            dia_asignado |-> r.dia_asignado, litros_entrega |-> r.litros_entrega,
            telefono |-> r.telefono, latitud |-> r.latitud,
            longitud |-> r.longitud]
DataOf(T) == {Data(r) : r \in T}

\* Table locks of PostgreSQL: TRUNCATE takes ACCESS EXCLUSIVE, which conflicts
\* with every other lock; INSERT (ROW EXCLUSIVE) and SELECT (ACCESS SHARE)
\* conflict only with it. A lock is held until its transaction ends.
CanTruncate(p) == \A q \in Procs \ {p} : tx[q].lock = "none"
CanReadWrite(p) == \A q \in Procs \ {p} : tx[q].lock # "exclusive"

\* psycopg2 opens a transaction with the first statement on a connection.
Begun(p) == IF tx[p].status = "none"
            THEN [NoTx EXCEPT !.status = "open", !.ts = now + 1,
                              !.seq0 = rutas_seq]
            ELSE tx[p]

\* The server ends a transaction without committing it: its rows are dropped and
\* a restarted sequence is restored.
SeqAfterRollback(p) == IF tx[p].truncated THEN tx[p].seq0 ELSE rutas_seq

Terminal == {"done", "raised", "http404"}
InFlight(q) == pc[q] \notin ({"start"} \cup Terminal)

\* A process that registers nothing.
NoPunto == [nombre |-> "", litros |-> Null]

\* ------------------------------------------------------------------ Init
\* The table holds what an earlier import stored.
InitBatches == {<<>>, <<RowProt>>, <<RowAna, RowProt>>}

\* The source files: only the Excel file, only the CSV, both, or neither.
InitFiles ==
    {<<FileOf(b), NoFile>> : b \in Batches}
    \cup {<<NoFile, FileOf(b)>> : b \in InitBatches}
    \cup {<<FileOf(b), FileOf(<<RowAna2>>)>> : b \in InitBatches}
    \cup {<<NoFile, NoFile>>, <<BadFile, NoFile>>, <<NoFile, BadFile>>,
          <<BadFile, FileOf(<<RowAna2>>)>>}

Init ==
    /\ \E b \in InitBatches :
          /\ rutas_activas = StoredRows(b, 0)
          /\ rutas_seq = Len(b) + 1
    /\ \E f \in InitFiles :
          /\ EXCEL_FILE = f[1]
          /\ CSV_FILE = f[2]
    /\ now = 0
    /\ used = {}
    /\ tx = [p \in Procs |-> NoTx]
    /\ pc = [p \in Procs |-> "start"]
    /\ df = [p \in Procs |-> <<>>]
    /\ idx = [p \in Procs |-> 1]
    /\ result = [p \in Procs |-> [status |-> "", rows |-> 0, error |-> ""]]
    /\ before = [p \in Procs |-> {}]
    /\ after = [p \in Procs |-> {}]
    /\ complete = {rutas_activas}
    /\ overlapped = FALSE
    /\ DATA_MODE = "db"
    /\ RUTA_BASE = NoFile
    /\ punto = [p \in Procs |-> NoPunto]
    /\ IdleEdit
    /\ IdleAuth

\* ------------------------------------------------- sync_files_to_db (DB mode)
\* ReadFiles without the two exists() tests: read_excel() alone, which gives
\* an empty frame for an absent file.
ReadFiles_no_check(p) ==
    /\ p \in Importers
    /\ pc[p] = "start"
    /\ DATA_MODE = "db"
    /\ overlapped' = (overlapped \/ \E q \in Importers \ {p} : InFlight(q))
    /\ df' = [df EXCEPT ![p] = EXCEL_FILE.rows]
    /\ used' = used \cup {p}
    /\ pc' = [pc EXCEPT ![p] = "truncate"]
    /\ UNCHANGED <<rutas_activas, rutas_seq, EXCEL_FILE, CSV_FILE, now, tx, idx,
                   result, before, after, complete, regVars, entVars, authVars>>

\* ReadFiles with the two tests the other way round: the CSV file is read
\* when it exists, the Excel file only otherwise.
ReadFiles_csv_first(p) ==
    /\ p \in Importers
    /\ pc[p] = "start"
    /\ DATA_MODE = "db"
    /\ overlapped' = (overlapped \/ \E q \in Importers \ {p} : InFlight(q))
    /\ LET src == IF CSV_FILE.exists THEN CSV_FILE ELSE EXCEL_FILE IN
       IF ~src.exists
       THEN /\ pc' = [pc EXCEPT ![p] = "http404"]
            /\ result' = [result EXCEPT ![p] = [status |-> "404",
                                                 error |-> "HTTPException"]]
            /\ UNCHANGED <<df, used>>
       ELSE IF ~src.parsable
       THEN /\ pc' = [pc EXCEPT ![p] = "raised"]
            /\ result' = [result EXCEPT ![p] = [status |-> "500",
                                                 error |-> "ParserError"]]
            /\ UNCHANGED <<df, used>>
       ELSE /\ df' = [df EXCEPT ![p] = src.rows]
            /\ used' = used \cup {p}
            /\ pc' = [pc EXCEPT ![p] = "truncate"]
            /\ UNCHANGED result
    /\ UNCHANGED <<rutas_activas, rutas_seq, EXCEL_FILE, CSV_FILE, now, tx, idx,
                   before, after, complete,
                   regVars, entVars, authVars>>

\* Lines 234-243: pick the source file, read it, take a connection. The
\* imports are followed in DB mode (line 240 not taken), the default of
\* DATA_MODE. A missing source is an HTTPException(404), a file pandas cannot
\* parse an exception out of read_excel() / read_csv(): both leave the handler
\* before db_conn(), and the caller gets an error body without counts.
ReadFiles(p) ==
    /\ p \in Importers
    /\ pc[p] = "start"
    /\ DATA_MODE = "db"
    /\ overlapped' = (overlapped \/ \E q \in Importers \ {p} : InFlight(q))
    /\ LET src == IF EXCEL_FILE.exists THEN EXCEL_FILE ELSE CSV_FILE IN
       IF ~src.exists
       THEN /\ pc' = [pc EXCEPT ![p] = "http404"]
            /\ result' = [result EXCEPT ![p] = [status |-> "404",
                                                 error |-> "HTTPException"]]
            /\ UNCHANGED <<df, used>>
       ELSE IF ~src.parsable
       THEN /\ pc' = [pc EXCEPT ![p] = "raised"]
            /\ result' = [result EXCEPT ![p] = [status |-> "500",
                                                 error |-> "ParserError"]]
            /\ UNCHANGED <<df, used>>
       ELSE /\ df' = [df EXCEPT ![p] = src.rows]
            /\ used' = used \cup {p}
            /\ pc' = [pc EXCEPT ![p] = "truncate"]
            /\ UNCHANGED result
    /\ UNCHANGED <<rutas_activas, rutas_seq, EXCEL_FILE, CSV_FILE, now, tx, idx,
                   before, after, complete,
                   regVars, entVars, authVars>>

\* Truncate with the clearing committed on its own (conn.commit() right after
\* the TRUNCATE, or an autocommit connection): the INSERTs then run in a
\* second transaction.
Truncate_commits(p) ==
    /\ p \in Importers
    /\ pc[p] = "truncate"
    /\ CanTruncate(p)
    /\ rutas_activas' = {}
    /\ rutas_seq' = 1
    /\ now' = now + 1
    /\ before' = [before EXCEPT ![p] = rutas_activas]
    /\ idx' = [idx EXCEPT ![p] = 1]
    /\ pc' = [pc EXCEPT ![p] = IF Len(df[p]) = 0 THEN "commit" ELSE "insert"]
    /\ UNCHANGED <<tx, EXCEL_FILE, CSV_FILE, used, df, result, after,
                   complete, overlapped,
                   regVars, entVars, authVars>>

\* Truncate without RESTART IDENTITY: the id sequence goes on counting.
Truncate_no_restart(p) ==
    /\ p \in Importers
    /\ pc[p] = "truncate"
    /\ CanTruncate(p)
    /\ tx' = [tx EXCEPT ![p] = [Begun(p) EXCEPT !.truncated = TRUE,
                                                !.lock = "exclusive",
                                                !.inserted = {}]]
    /\ now' = now + 1
    /\ before' = [before EXCEPT ![p] = rutas_activas]
    /\ idx' = [idx EXCEPT ![p] = 1]
    /\ pc' = [pc EXCEPT ![p] = IF Len(df[p]) = 0 THEN "commit" ELSE "insert"]
    /\ UNCHANGED <<rutas_activas, rutas_seq, EXCEL_FILE, CSV_FILE, used, df,
                   result, after, complete, overlapped,
                   regVars, entVars, authVars>>

\* Line 244: TRUNCATE TABLE rutas_activas RESTART IDENTITY, inside the
\* connection's transaction.
Truncate(p) ==
    /\ p \in Importers
    /\ pc[p] = "truncate"
    /\ CanTruncate(p)
    /\ tx' = [tx EXCEPT ![p] = [Begun(p) EXCEPT !.truncated = TRUE,
                                                !.lock = "exclusive",
                                                !.inserted = {}]]
    /\ rutas_seq' = 1
    /\ now' = now + 1
    /\ before' = [before EXCEPT ![p] = rutas_activas]
    /\ idx' = [idx EXCEPT ![p] = 1]
    /\ pc' = [pc EXCEPT ![p] = IF Len(df[p]) = 0 THEN "commit" ELSE "insert"]
    /\ UNCHANGED <<rutas_activas, EXCEL_FILE, CSV_FILE, used, df, result, after,
                   complete, overlapped,
                   regVars, entVars, authVars>>

\* InsertRow with conn.commit() inside the loop: every row is committed as
\* soon as it is inserted.
InsertRow_commits(p) ==
    /\ p \in Importers
    /\ pc[p] = "insert"
    /\ idx[p] <= Len(df[p])
    /\ ~InsertRaises(df[p][idx[p]])
    /\ CanReadWrite(p)
    /\ rutas_activas' = (IF tx[p].truncated THEN {} ELSE rutas_activas)
                            \cup tx[p].inserted
                            \cup {InsertParams(df[p][idx[p]], rutas_seq, Begun(p).ts)}
    /\ tx' = [tx EXCEPT ![p] = NoTx]
    /\ now' = IF tx[p].status = "none" THEN now + 1 ELSE now
    /\ rutas_seq' = rutas_seq + 1
    /\ idx' = [idx EXCEPT ![p] = @ + 1]
    /\ pc' = [pc EXCEPT ![p] = IF idx[p] = Len(df[p]) THEN "commit" ELSE "insert"]
    /\ UNCHANGED <<EXCEL_FILE, CSV_FILE, used, df, result, before, after,
                   complete, overlapped, regVars, entVars, authVars>>

\* Lines 245-256: one turn of the loop: convert the row's cells, INSERT it.
InsertRow(p) ==
    /\ p \in Importers
    /\ pc[p] = "insert"
    /\ idx[p] <= Len(df[p])
    /\ LET r == df[p][idx[p]] IN
       IF InsertRaises(r)
       THEN \* int() / float() raises ValueError: the handler is left as it is.
            /\ pc' = [pc EXCEPT ![p] = "raised"]
            /\ result' = [result EXCEPT ![p] = [status |-> "500",
                                                 error |-> "ValueError"]]
            /\ UNCHANGED <<tx, rutas_seq, idx, now>>
       ELSE /\ CanReadWrite(p)
            /\ tx' = [tx EXCEPT ![p] =
                        [Begun(p) EXCEPT
                            !.inserted = @ \cup {InsertParams(r, rutas_seq, Begun(p).ts)},
                            !.lock = IF @ = "none" THEN "row" ELSE @]]
            /\ now' = IF tx[p].status = "none" THEN now + 1 ELSE now
            /\ rutas_seq' = rutas_seq + 1
            /\ idx' = [idx EXCEPT ![p] = @ + 1]
            /\ pc' = [pc EXCEPT ![p] = IF idx[p] = Len(df[p]) THEN "commit"
                                       ELSE "insert"]
            /\ UNCHANGED result
    /\ UNCHANGED <<rutas_activas, EXCEL_FILE, CSV_FILE, used, df, before, after,
                   complete, overlapped,
                   regVars, entVars, authVars>>

\* Line 257: conn.commit(); cur.close(); db_put(conn).
Commit(p) ==
    /\ p \in Importers
    /\ pc[p] = "commit"
    /\ rutas_activas' = (IF tx[p].truncated THEN {} ELSE rutas_activas)
                            \cup tx[p].inserted
    /\ tx' = [tx EXCEPT ![p] = NoTx]
    /\ used' = used \ {p}
    /\ after' = [after EXCEPT ![p] = rutas_activas']
    /\ complete' = complete \cup {StoredRows(df[p], tx[p].ts)}
    /\ pc' = [pc EXCEPT ![p] = "write_excel"]
    /\ UNCHANGED <<rutas_seq, EXCEL_FILE, CSV_FILE, now, df, idx, result, before,
                   overlapped,
                   regVars, entVars, authVars>>

\* A statement or the commit fails in the store. "dberror": the statement is
\* refused (constraint, timeout) and the transaction stays open, aborted, with
\* its locks; "connlost": the session is gone and the server drops the
\* transaction. Either way the exception leaves sync_files_to_db at once: there
\* is no except/finally, no rollback and no db_put.
DbFail(p, kind) ==
    /\ p \in Importers
    /\ pc[p] \in {"truncate", "insert", "commit"}
    /\ pc[p] = "truncate" => CanTruncate(p)
    /\ IF kind = "connlost" \/ pc[p] = "commit"
       THEN /\ tx' = [tx EXCEPT ![p] = NoTx]
            /\ rutas_seq' = SeqAfterRollback(p)
       ELSE /\ tx' = [tx EXCEPT ![p] = [Begun(p) EXCEPT !.status = "aborted",
                                                       !.lock = tx[p].lock]]
            /\ UNCHANGED rutas_seq
    /\ pc' = [pc EXCEPT ![p] = "raised"]
    /\ result' = [result EXCEPT ![p] = [status |-> "500",
                                         error |-> "DatabaseError"]]
    /\ UNCHANGED <<rutas_activas, EXCEL_FILE, CSV_FILE, now, used, df, idx,
                   before, after, complete, overlapped,
                   regVars, entVars, authVars>>

\* Line 258 (and 229): write_excel(df).
WriteExcel(p) ==
    /\ pc[p] = "write_excel"
    /\ EXCEL_FILE' = FileOf(df[p])
    /\ pc' = [pc EXCEPT ![p] = "write_csv"]
    /\ UNCHANGED <<rutas_activas, rutas_seq, CSV_FILE, now, used, tx, df, idx,
                   result, before, after, complete, overlapped,
                   regVars, entVars, authVars>>

\* Line 258 (and 229): write_csv(df).
WriteCsv(p) ==
    /\ pc[p] = "write_csv"
    /\ CSV_FILE' = FileOf(df[p])
    /\ pc' = [pc EXCEPT ![p] = "return"]
    /\ UNCHANGED <<rutas_activas, rutas_seq, EXCEL_FILE, now, used, tx, df, idx,
                   result, before, after, complete, overlapped,
                   regVars, entVars, authVars>>

\* Lines 259 and 477-479: the count goes back to the caller as status ok.
ImportReturn(p) ==
    /\ p \in Importers
    /\ pc[p] = "return"
    /\ result' = [result EXCEPT ![p] = [status |-> "ok", rows |-> Len(df[p]),
                                         error |-> ""]]
    /\ pc' = [pc EXCEPT ![p] = "done"]
    /\ UNCHANGED <<rutas_activas, rutas_seq, EXCEL_FILE, CSV_FILE, now, used, tx,
                   df, idx, before, after, complete, overlapped,
                   regVars, entVars, authVars>>

\* ----------------------------------------- sync_db_to_files / get_rutas_activas
\* Lines 220-228: SELECT ... ORDER BY id on a pool connection, given back at
\* once (putconn rolls the read transaction back).
SelectRutas(p) ==
    /\ p \in Readers
    /\ pc[p] = "start"
    /\ CanReadWrite(p)
    /\ df' = [df EXCEPT ![p] = Frame(rutas_activas)]
    /\ pc' = [pc EXCEPT ![p] = "write_excel"]
    /\ UNCHANGED <<rutas_activas, rutas_seq, EXCEL_FILE, CSV_FILE, now, used, tx,
                   idx, result, before, after, complete, overlapped,
                   regVars, entVars, authVars>>

\* Lines 396-398: the listing goes back to the caller.
ListReturn(p) ==
    /\ p \in Readers
    /\ pc[p] = "return"
    /\ result' = [result EXCEPT ![p] = [status |-> "ok", rows |-> Len(df[p]),
                                         error |-> ""]]
    /\ pc' = [pc EXCEPT ![p] = "done"]
    /\ UNCHANGED <<rutas_activas, rutas_seq, EXCEL_FILE, CSV_FILE, now, used, tx,
                   df, idx, before, after, complete, overlapped,
                   regVars, entVars, authVars>>

Next ==
    \/ \E p \in Importers : ReadFiles(p)
    \/ \E p \in Importers : Truncate(p)
    \/ \E p \in Importers : InsertRow(p)
    \/ \E p \in Importers : Commit(p)
    \/ \E p \in Importers, kind \in {"dberror", "connlost"} : DbFail(p, kind)
    \/ \E p \in Procs : WriteExcel(p)
    \/ \E p \in Procs : WriteCsv(p)
    \/ \E p \in Importers : ImportReturn(p)
    \/ \E p \in Readers : SelectRutas(p)
    \/ \E p \in Readers : ListReturn(p)

Spec == Init /\ [][Next]_vars


\* ------------------------------------ registrar_nuevo_punto (Excel base file)
CAMIONES_VALIDOS == <<"A1", "A2", "A3", "A4", "A5", "M1", "M2">>

BaseRow(c, n, l) ==
    [id_camion |-> c, patente |-> "", conductor |-> "", dia |-> "LUNES",
     nombre |-> n, telefono |-> "", sector |-> "", litros |-> l,
     latitud |-> Num(-330), longitud |-> Num(-716)]

\* df.groupby(id_camion)[litros].sum(): the litres of one vehicle's rows.
RECURSIVE SumLitros(_, _)
SumLitros(rows, c) ==
    IF rows = <<>> THEN 0
    ELSE (IF rows[1].id_camion = c THEN rows[1].litros.v ELSE 0)
            + SumLitros(Tail(rows), c)

\* resumen.get(c, 0): a vehicle with no row counts 0.
Resumen(rows, c) == SumLitros(rows, c)

\* min(CAMIONES_VALIDOS, key=...): the first vehicle of the list with the
\* smallest total.
AsignarA(rows) ==
    LET i == CHOOSE k \in 1..Len(CAMIONES_VALIDOS) :
                 /\ \A m \in 1..Len(CAMIONES_VALIDOS) :
                       Resumen(rows, CAMIONES_VALIDOS[k])
                           <= Resumen(rows, CAMIONES_VALIDOS[m])
                 /\ \A m \in 1..(k - 1) :
                       Resumen(rows, CAMIONES_VALIDOS[m])
                           > Resumen(rows, CAMIONES_VALIDOS[k])
    IN CAMIONES_VALIDOS[i]

\* Lines 74-118: read the whole base file, pick the vehicle, build the row.
RegRead(g) ==
    /\ g \in Registrars
    /\ pc[g] = "start"
    /\ IF ~RUTA_BASE.exists
       THEN /\ pc' = [pc EXCEPT ![g] = "http404"]
            /\ result' = [result EXCEPT ![g] = [status |-> "404",
                                                 error |-> "HTTPException"]]
            /\ UNCHANGED df
       ELSE /\ df' = [df EXCEPT ![g] =
                        Append(RUTA_BASE.rows,
                               [BaseRow(AsignarA(RUTA_BASE.rows), punto[g].nombre,
                                        punto[g].litros)
                                   EXCEPT !.latitud = punto[g].latitud,
                                          !.longitud = punto[g].longitud])]
            /\ pc' = [pc EXCEPT ![g] = "write_base"]
            /\ UNCHANGED result
    /\ UNCHANGED <<rutas_activas, rutas_seq, EXCEL_FILE, CSV_FILE, now, used, tx,
                   idx, before, after, complete, overlapped, regVars, entVars, authVars>>

\* Lines 120-124: write the whole frame back over the base file and answer.
RegWrite(g) ==
    /\ g \in Registrars
    /\ pc[g] = "write_base"
    /\ RUTA_BASE' = FileOf(df[g])
    /\ result' = [result EXCEPT ![g] =
                    [status |-> "ok", rows |-> Len(df[g]), error |-> "",
                     camion_asignado |-> df[g][Len(df[g])].id_camion]]
    /\ pc' = [pc EXCEPT ![g] = "done"]
    /\ UNCHANGED <<rutas_activas, rutas_seq, EXCEL_FILE, CSV_FILE, now, used, tx,
                   df, idx, before, after, complete, overlapped, DATA_MODE,
                   punto, entVars, authVars>>

\* ------------------------------------------------ add_ruta_activa (main.py)
\* read_excel(): the sheet, or an empty frame when the file is absent.
read_excel == IF EXCEL_FILE.exists THEN EXCEL_FILE.rows ELSE <<>>

\* df["id"].max() + 1, or 1 for an empty frame.
RECURSIVE MaxId(_)
MaxId(rows) == IF rows = <<>> THEN 0
               ELSE LET m == MaxId(Tail(rows))
                    IN IF rows[1].id > m THEN rows[1].id ELSE m
NewExcelId(rows) == IF rows = <<>> THEN 1 ELSE MaxId(rows) + 1

\* The parameters of the INSERT of add_ruta_activa: None for an absent
\* coordinate.
AddParams(n, newid, ts) ==
    [id |-> newid, camion |-> n.camion, nombre |-> n.nombre,
     dia_asignado |-> n.dia, litros_entrega |-> n.litros,
     telefono |-> n.telefono,
     latitud |-> IF notna(n.latitud) THEN n.latitud ELSE Null,
     longitud |-> IF notna(n.longitud) THEN n.longitud ELSE Null,
     updated_at |-> ts]

\* Lines 402-407 (Excel mode): read the sheet, number the point, append it.
AddReadExcel(a) ==
    /\ a \in Adders
    /\ pc[a] = "start"
    /\ DATA_MODE # "db"
    /\ LET new_id == NewExcelId(read_excel) IN
          /\ df' = [df EXCEPT ![a] =
                      Append(read_excel,
                             [id |-> new_id, camion |-> punto[a].camion,
                              nombre |-> punto[a].nombre, dia |-> punto[a].dia,
                              litros |-> punto[a].litros,
                              telefono |-> punto[a].telefono,
                              latitud |-> punto[a].latitud,
                              longitud |-> punto[a].longitud])]
          /\ result' = [result EXCEPT ![a] = [status |-> "", new_id |-> new_id,
                                              error |-> ""]]
    /\ pc' = [pc EXCEPT ![a] = "write_excel"]
    /\ UNCHANGED <<rutas_activas, rutas_seq, EXCEL_FILE, CSV_FILE, now, used, tx,
                   idx, before, after, complete, overlapped, regVars, entVars, authVars>>

\* Lines 412-419 (DB mode): INSERT ... RETURNING id; commit; db_put.
AddInsert(a) ==
    /\ a \in Adders
    /\ pc[a] = "start"
    /\ DATA_MODE = "db"
    /\ CanReadWrite(a)
    /\ rutas_activas' = rutas_activas \cup {AddParams(punto[a], rutas_seq, now + 1)}
    /\ rutas_seq' = rutas_seq + 1
    /\ now' = now + 1
    /\ result' = [result EXCEPT ![a] = [status |-> "", new_id |-> rutas_seq,
                                        error |-> ""]]
    /\ pc' = [pc EXCEPT ![a] = "select"]
    /\ UNCHANGED <<EXCEL_FILE, CSV_FILE, used, tx, df, idx, before, after,
                   complete, overlapped, regVars, entVars, authVars>>

\* Line 420: sync_db_to_files(), its SELECT.
AddSelect(a) ==
    /\ a \in Adders
    /\ pc[a] = "select"
    /\ CanReadWrite(a)
    /\ df' = [df EXCEPT ![a] = Frame(rutas_activas)]
    /\ pc' = [pc EXCEPT ![a] = "write_excel"]
    /\ UNCHANGED <<rutas_activas, rutas_seq, EXCEL_FILE, CSV_FILE, now, used, tx,
                   idx, result, before, after, complete, overlapped, regVars, entVars, authVars>>

\* Lines 409-410 and 421-422: status ok and the new id go back to the caller.
AddReturn(a) ==
    /\ a \in Adders
    /\ pc[a] = "return"
    /\ result' = [result EXCEPT ![a] = [@ EXCEPT !.status = "ok"]]
    /\ pc' = [pc EXCEPT ![a] = "done"]
    /\ UNCHANGED <<rutas_activas, rutas_seq, EXCEL_FILE, CSV_FILE, now, used, tx,
                   df, idx, before, after, complete, overlapped, regVars, entVars, authVars>>

\* The request bodies of the registrations: each caller registers its own
\* household.
PuntosOf(g) ==
    {[nombre |-> g, litros |-> l, latitud |-> Num(-331), longitud |-> Num(-715)] :
        l \in {Num(1000), Num(9000)}}
NuevosOf(a) ==
    {[camion |-> c, nombre |-> a, dia |-> "LUNES", litros |-> Num(1000),
      telefono |-> "", latitud |-> NaN, longitud |-> NaN] : c \in {"A2"}}

InitBases == {NoFile, FileOf(<<>>),
              FileOf(<<BaseRow("A1", "B1", Num(5000))>>),
              FileOf(<<BaseRow("A1", "B1", Num(5000)),
                       BaseRow("A2", "B2", Num(2000))>>)}

\* The files hold the backup of the table (sync_db_to_files).
InitReg ==
    /\ \E b \in {<<>>, <<RowAna, RowProt>>} :
          /\ rutas_activas = StoredRows(b, 0)
          /\ rutas_seq = Len(b) + 1
    /\ EXCEL_FILE = FileOf(Frame(rutas_activas))
    /\ CSV_FILE = EXCEL_FILE
    /\ now = 0
    /\ used = {}
    /\ tx = [p \in Procs |-> NoTx]
    /\ pc = [p \in Procs |-> "start"]
    /\ df = [p \in Procs |-> <<>>]
    /\ idx = [p \in Procs |-> 1]
    /\ result = [p \in Procs |-> [status |-> "", rows |-> 0, error |-> ""]]
    /\ before = [p \in Procs |-> {}]
    /\ after = [p \in Procs |-> {}]
    /\ complete = {rutas_activas}
    /\ overlapped = FALSE
    /\ DATA_MODE \in {"db", "excel"}
    /\ RUTA_BASE \in InitBases
    /\ \E pg \in [Registrars -> UNION {PuntosOf(g) : g \in Registrars}],
          pa \in [Adders -> UNION {NuevosOf(a) : a \in Adders}] :
          /\ \A g \in Registrars : pg[g] \in PuntosOf(g)
          /\ \A a \in Adders : pa[a] \in NuevosOf(a)
          /\ punto = [p \in Procs |->
                        IF p \in Registrars THEN pg[p]
                        ELSE IF p \in Adders THEN pa[p] ELSE NoPunto]
    /\ IdleEdit
    /\ IdleAuth

NextReg ==
    \/ \E g \in Registrars : RegRead(g)
    \/ \E g \in Registrars : RegWrite(g)
    \/ \E a \in Adders : AddReadExcel(a)
    \/ \E a \in Adders : AddInsert(a)
    \/ \E a \in Adders : AddSelect(a)
    \/ \E a \in Adders : WriteExcel(a)
    \/ \E a \in Adders : WriteCsv(a)
    \/ \E a \in Adders : AddReturn(a)

SpecReg == InitReg /\ [][NextReg]_vars

\* ------------------------------------- redistribuir_puntos (redistribucion.py)
camiones_disponibles_todos ==
    <<"A1", "A2", "A3", "A4", "A5", "M1", "M2", "M3">>

camiones_disponibles == <<"A1", "A2", "A3", "A4", "A5", "M1", "M2">>

NuevoRow(n) == [nombre |-> n, telefono |-> "", litros |-> Num(1000),
                latitud |-> Num(-331), longitud |-> Num(-716)]

\* data/Puntos_Nuevos_Consolidados.xlsx, which no handler writes: absent,
\* unreadable, or a sheet of new points.
PuntosNuevosFiles == {NoFile, BadFile, FileOf(<<NuevoRow("N1")>>),
                      FileOf(<<NuevoRow("N1"), NuevoRow("N2")>>)}

\* Lines 44-53: read the sheet; a missing or unreadable file is answered with
\* {"error": ...}.
RedistRead(d) ==
    /\ d \in Redistributors
    /\ pc[d] = "start"
    /\ \E f \in PuntosNuevosFiles :
          IF ~f.exists \/ ~f.parsable
          THEN /\ result' = [result EXCEPT ![d] =
                              [error |-> IF f.exists THEN "Exception"
                                         ELSE "Archivo no encontrado"]]
               /\ pc' = [pc EXCEPT ![d] = "done"]
               /\ UNCHANGED <<df, idx>>
          ELSE /\ df' = [df EXCEPT ![d] = f.rows]
               /\ idx' = [idx EXCEPT ![d] = 1]
               /\ result' = [result EXCEPT ![d] = [asignaciones |-> <<>>]]
               /\ pc' = [pc EXCEPT ![d] = "assign"]
    /\ UNCHANGED <<rutas_activas, rutas_seq, EXCEL_FILE, CSV_FILE, now, used, tx,
                   before, after, complete, overlapped, regVars, entVars, authVars>>

\* Lines 55-59: one turn of the loop: random.choice(camiones_disponibles).
RedistAssign(d) ==
    /\ d \in Redistributors
    /\ pc[d] = "assign"
    /\ idx[d] <= Len(df[d])
    /\ \E k \in 1..Len(camiones_disponibles) :
          LET row == df[d][idx[d]]
              nuevo == [nombre |-> row.nombre, telefono |-> row.telefono,
                        litros |-> row.litros, latitud |-> row.latitud,
                        longitud |-> row.longitud,
                        camion_asignado |-> camiones_disponibles[k]]
          IN result' = [result EXCEPT ![d] =
                          [asignaciones |-> Append(@.asignaciones, nuevo)]]
    /\ idx' = [idx EXCEPT ![d] = @ + 1]
    /\ pc' = [pc EXCEPT ![d] = IF idx[d] = Len(df[d]) THEN "return" ELSE "assign"]
    /\ UNCHANGED <<rutas_activas, rutas_seq, EXCEL_FILE, CSV_FILE, now, used, tx,
                   df, before, after, complete, overlapped, regVars, entVars, authVars>>

\* Line 61: the list goes back to the caller.
RedistReturn(d) ==
    /\ d \in Redistributors
    /\ pc[d] = "return"
    /\ pc' = [pc EXCEPT ![d] = "done"]
    /\ UNCHANGED <<rutas_activas, rutas_seq, EXCEL_FILE, CSV_FILE, now, used, tx,
                   df, idx, result, before, after, complete, overlapped, regVars, entVars, authVars>>

\* -------------------------------- one registration of each kind, any request
\* The body of POST /rutas-activas-excel/registrar-nuevo-punto: the handler
\* reads nombre, litros, latitud, longitud (telefono and sector are optional);
\* a dia key may be sent, the handler does not read it.
PuntoDe(n, l, lat, d) ==
    [nombre |-> n, litros |-> l, latitud |-> lat, longitud |-> Num(-716),
     dia |-> d]

AsgPuntos == {PuntoDe("P1", Num(1000), Num(-331), ""),
              PuntoDe("P1", Num(1000), Num(-331), "VIERNES"),
              PuntoDe("", Num(1000), Num(-331), ""),
              PuntoDe("P1", Num(0), Num(-331), ""),
              PuntoDe("P1", Num(1000), Num(950), "")}

\* The body of POST /rutas-activas (NuevoPunto): camion, nombre, dia and litros
\* of the declared types, coordinates optional; no other constraint.
NuevoDe(n, l, lat) ==
    [camion |-> "A2", nombre |-> n, dia |-> "LUNES", litros |-> l,
     telefono |-> "", latitud |-> lat,
     longitud |-> IF notna(lat) THEN Num(-716) ELSE NaN]

AsgNuevos == {NuevoDe("Q1", Num(1000), NaN),
              NuevoDe("", Num(1000), NaN),
              NuevoDe("Q1", Num(-50), NaN),
              NuevoDe("Q1", Num(1000), Num(950))}

\* The base file: absent, empty, or holding points of the routes.
BaseAt(c, n, l, lat, d) ==
    [BaseRow(c, n, l) EXCEPT !.latitud = lat, !.dia = d]

AsgBases == {NoFile, FileOf(<<>>),
             FileOf(<<BaseAt("A2", "B2", Num(2000), Num(-331), "MARTES")>>),
             FileOf(<<BaseAt("A1", "B1", Num(5000), Num(-300), "LUNES"),
                      BaseAt("A2", "B2", Num(2000), Num(-331), "MARTES")>>),
             FileOf(<<BaseAt("A2", "B2", Num(2000), Num(-332), "MARTES"),
                      BaseAt("A1", "B1", Num(5000), Num(-330), "LUNES")>>)}

InitAsg ==
    /\ rutas_activas = StoredRows(<<RowAna, RowProt>>, 0)
    /\ rutas_seq = 3
    /\ EXCEL_FILE = FileOf(Frame(rutas_activas))
    /\ CSV_FILE = EXCEL_FILE
    /\ now = 0
    /\ used = {}
    /\ tx = [p \in Procs |-> NoTx]
    /\ pc = [p \in Procs |-> "start"]
    /\ df = [p \in Procs |-> <<>>]
    /\ idx = [p \in Procs |-> 1]
    /\ result = [p \in Procs |-> [status |-> "", rows |-> 0, error |-> ""]]
    /\ before = [p \in Procs |-> {}]
    /\ after = [p \in Procs |-> {}]
    /\ complete = {rutas_activas}
    /\ overlapped = FALSE
    /\ DATA_MODE \in {"db", "excel"}
    /\ RUTA_BASE \in AsgBases
    /\ \E pg \in AsgPuntos, pa \in AsgNuevos :
          punto = [p \in Procs |->
                     IF p = "g1" THEN pg ELSE IF p = "a1" THEN pa ELSE NoPunto]
    /\ IdleEdit
    /\ IdleAuth

NextAsg ==
    \/ RegRead("g1")
    \/ RegWrite("g1")
    \/ AddReadExcel("a1")
    \/ AddInsert("a1")
    \/ AddSelect("a1")
    \/ WriteExcel("a1")
    \/ WriteCsv("a1")
    \/ AddReturn("a1")
    \/ \E d \in Redistributors : RedistRead(d)
    \/ \E d \in Redistributors : RedistAssign(d)
    \/ \E d \in Redistributors : RedistReturn(d)

SpecAsg == InitAsg /\ [][NextAsg]_vars

\* ------------------------ routers/entregas.py: get_conn_cursor and the edits
\* COALESCE(%s, col): the parameter, or the column's value when it is NULL.
COALESCE(x, old) == IF x = None THEN old ELSE x[1]

\* One row of ruta_activa / redistribucion (coordinates in tenths of a degree).
RutaRow(i, c, n, l) ==
    [id |-> i, camion |-> c, nombre |-> n, litros |-> l, dia |-> "LUNES",
     telefono |-> "", latitud |-> -330, longitud |-> -716]

\* The table an edit endpoint works on.
TablaDe(e) == IF e \in EditoresRedist THEN "redistribucion" ELSE "ruta_activa"

\* The SET clause of the UPDATE, applied to the row it finds.
UpdateSet(pl, r) ==
    [id |-> r.id,
     camion |-> COALESCE(pl.camion, r.camion),
     litros |-> COALESCE(pl.litros, r.litros),
     dia |-> COALESCE(pl.dia, r.dia),
     telefono |-> COALESCE(pl.telefono, r.telefono),
     latitud |-> COALESCE(pl.latitud, r.latitud),
     longitud |-> COALESCE(pl.longitud, r.longitud),
     nombre |-> COALESCE(pl.nombre, r.nombre)]

\* An UPDATE holds the lock of its row until its transaction ends; a second
\* UPDATE of the row waits for it.
RowLocked(p, t, i) ==
    \E q \in Procs \ {p} :
        /\ ctx[q].write # <<>>
        /\ ctx[q].write[1].tabla = t
        /\ ctx[q].write[1].old.id = i

\* except Exception as e: raise HTTPException(status_code=500, detail=str(e)).
Http500(exc) == [status |-> "500", error |-> "HTTPException", detail |-> exc]

\* Lines 140-144 and 196-200: take the id of the payload, or ask for a lookup
\* by name; with neither, HTTPException(400) is raised inside the try block
\* and the except clause below turns it into a 500.
EditStart(e) ==
    /\ e \in Editors
    /\ pc[e] = "start"
    /\ IF payload[e].id # None
       THEN /\ id_ruta' = [id_ruta EXCEPT ![e] = payload[e].id]
            /\ pc' = [pc EXCEPT ![e] = "update_enter"]
            /\ UNCHANGED result
       ELSE IF payload[e].nombre_lookup \in {None, Some("")}
       THEN /\ pc' = [pc EXCEPT ![e] = "raised"]
            /\ result' = [result EXCEPT ![e] = Http500("400")]
            /\ UNCHANGED id_ruta
       ELSE /\ pc' = [pc EXCEPT ![e] = "lookup_enter"]
            /\ UNCHANGED <<result, id_ruta>>
    /\ UNCHANGED <<rutas_activas, rutas_seq, EXCEL_FILE, CSV_FILE, now, used, tx,
                   df, idx, before, after, complete, overlapped, regVars,
                   tablas, ctx, payload, authVars>>

\* __enter__ (lines 81-84): pool.getconn() and a cursor on the connection.
Ctx_enter(p) ==
    /\ p \in Editors
    /\ pc[p] \in {"lookup_enter", "update_enter"}
    /\ ctx' = [ctx EXCEPT ![p] = [open |-> TRUE, exc |-> "", write |-> <<>>,
                                  last |-> @.last, gets |-> @.gets + 1,
                                  puts |-> @.puts]]
    /\ pc' = [pc EXCEPT ![p] = IF pc[p] = "lookup_enter" THEN "lookup"
                               ELSE "update"]
    /\ UNCHANGED <<rutas_activas, rutas_seq, EXCEL_FILE, CSV_FILE, now, used, tx,
                   df, idx, result, before, after, complete, overlapped, regVars,
                   tablas, payload, id_ruta, authVars>>

\* Lines 145-150 and 201-206, the body of the first with block: SELECT id ...
\* WHERE nombre = %s and fetchone(). The query has no ORDER BY: any of the
\* rows with that name may come first. No row: HTTPException(404). The
\* statement may also fail in the store.
EditLookup(e) ==
    /\ e \in Editors
    /\ pc[e] = "lookup"
    /\ LET found == {r \in tablas[TablaDe(e)] :
                        r.nombre = payload[e].nombre_lookup[1]}
       IN \/ /\ ctx' = [ctx EXCEPT ![e].exc = "OperationalError"]
             /\ UNCHANGED id_ruta
          \/ /\ found = {}
             /\ ctx' = [ctx EXCEPT ![e].exc = "HTTPException404"]
             /\ UNCHANGED id_ruta
          \/ /\ \E r \in found : id_ruta' = [id_ruta EXCEPT ![e] = Some(r.id)]
             /\ UNCHANGED ctx
    /\ pc' = [pc EXCEPT ![e] = "lookup_exit"]
    /\ UNCHANGED <<rutas_activas, rutas_seq, EXCEL_FILE, CSV_FILE, now, used, tx,
                   df, idx, result, before, after, complete, overlapped, regVars,
                   tablas, payload, authVars>>

\* The UPDATE without its last SET line: nombre is left as it was.
EditUpdate_keeps_nombre(e) ==
    /\ e \in Editors
    /\ pc[e] = "update"
    /\ LET t == TablaDe(e)
           i == id_ruta[e][1]
           hit == {r \in tablas[t] : r.id = i}
       IN \/ ctx' = [ctx EXCEPT ![e].exc = "OperationalError"]
          \/ /\ hit = {}
             /\ ctx' = [ctx EXCEPT ![e].exc = "HTTPException404"]
          \/ /\ ~RowLocked(e, t, i)
             /\ \E r \in hit :
                   ctx' = [ctx EXCEPT ![e].write =
                             <<[tabla |-> t, old |-> r,
                                new |-> [UpdateSet(payload[e], r)
                                           EXCEPT !.nombre = r.nombre]]>>]
    /\ pc' = [pc EXCEPT ![e] = "update_exit"]
    /\ UNCHANGED <<rutas_activas, rutas_seq, EXCEL_FILE, CSV_FILE, now, used, tx,
                   df, idx, result, before, after, complete, overlapped, regVars,
                   tablas, payload, id_ruta, authVars>>

\* Lines 152-177 and 208-233, the body of the second with block: UPDATE ...
\* SET col = COALESCE(%s, col) ... WHERE id = %s RETURNING id. No row:
\* HTTPException(404). The new row version stays pending until the commit.
EditUpdate(e) ==
    /\ e \in Editors
    /\ pc[e] = "update"
    /\ LET t == TablaDe(e)
           i == id_ruta[e][1]
           hit == {r \in tablas[t] : r.id = i}
       IN \/ ctx' = [ctx EXCEPT ![e].exc = "OperationalError"]
          \/ /\ hit = {}
             /\ ctx' = [ctx EXCEPT ![e].exc = "HTTPException404"]
          \/ /\ ~RowLocked(e, t, i)
             /\ \E r \in hit :
                   ctx' = [ctx EXCEPT ![e].write =
                             <<[tabla |-> t, old |-> r,
                                new |-> UpdateSet(payload[e], r)]>>]
    /\ pc' = [pc EXCEPT ![e] = "update_exit"]
    /\ UNCHANGED <<rutas_activas, rutas_seq, EXCEL_FILE, CSV_FILE, now, used, tx,
                   df, idx, result, before, after, complete, overlapped, regVars,
                   tablas, payload, id_ruta, authVars>>

\* __exit__ with pool.putconn() after the commit or rollback instead of in a
\* finally clause.
Ctx_exit_no_finally(p) ==
    /\ p \in Editors
    /\ pc[p] \in {"lookup_exit", "update_exit"}
    /\ \E fails \in BOOLEAN :
          LET c == ctx[p]
              last == IF c.exc = ""
                      THEN (IF fails THEN "commit_failed" ELSE "commit")
                      ELSE (IF fails THEN "rollback_failed" ELSE "rollback")
              exc == IF fails THEN "OperationalError" ELSE c.exc
          IN /\ tablas' = IF last = "commit" /\ c.write # <<>>
                          THEN [tablas EXCEPT ![c.write[1].tabla] =
                                  (@ \ {c.write[1].old}) \cup {c.write[1].new}]
                          ELSE tablas
             /\ ctx' = [ctx EXCEPT ![p] = [open |-> FALSE, exc |-> exc,
                                           write |-> <<>>, last |-> last,
                                           gets |-> c.gets,
                                           puts |-> IF fails THEN c.puts
                                                    ELSE c.puts + 1]]
             /\ IF exc # ""
                THEN /\ pc' = [pc EXCEPT ![p] = "raised"]
                     /\ result' = [result EXCEPT ![p] =
                                     Http500(IF exc = "HTTPException404"
                                             THEN "404" ELSE exc)]
                ELSE IF pc[p] = "lookup_exit"
                THEN /\ pc' = [pc EXCEPT ![p] = "update_enter"]
                     /\ UNCHANGED result
                ELSE /\ pc' = [pc EXCEPT ![p] = "done"]
                     /\ result' = [result EXCEPT ![p] =
                                     [status |-> "200", error |-> "",
                                      id |-> id_ruta[p][1]]]
    /\ UNCHANGED <<rutas_activas, rutas_seq, EXCEL_FILE, CSV_FILE, now, used, tx,
                   df, idx, before, after, complete, overlapped, regVars,
                   payload, id_ruta, authVars>>

\* __exit__ (lines 85-93) and what the handler does with its outcome: the
\* cursor is closed; rollback() if the block raised, commit() otherwise, and
\* either call can fail when the session is gone (the server then drops the
\* transaction); putconn() runs in the finally clause. An exception leaving
\* the with statement reaches the handler's except clause (500); otherwise
\* the handler goes on to the UPDATE, or returns the id (lines 177, 233).
Ctx_exit(p) ==
    /\ p \in Editors
    /\ pc[p] \in {"lookup_exit", "update_exit"}
    /\ \E fails \in BOOLEAN :
          LET c == ctx[p]
              last == IF c.exc = ""
                      THEN (IF fails THEN "commit_failed" ELSE "commit")
                      ELSE (IF fails THEN "rollback_failed" ELSE "rollback")
              exc == IF fails THEN "OperationalError" ELSE c.exc
          IN /\ tablas' = IF last = "commit" /\ c.write # <<>>
                          THEN [tablas EXCEPT ![c.write[1].tabla] =
                                  (@ \ {c.write[1].old}) \cup {c.write[1].new}]
                          ELSE tablas
             /\ ctx' = [ctx EXCEPT ![p] = [open |-> FALSE, exc |-> exc,
                                           write |-> <<>>, last |-> last,
                                           gets |-> c.gets,
                                           puts |-> c.puts + 1]]
             /\ IF exc # ""
                THEN /\ pc' = [pc EXCEPT ![p] = "raised"]
                     /\ result' = [result EXCEPT ![p] =
                                     Http500(IF exc = "HTTPException404"
                                             THEN "404" ELSE exc)]
                ELSE IF pc[p] = "lookup_exit"
                THEN /\ pc' = [pc EXCEPT ![p] = "update_enter"]
                     /\ UNCHANGED result
                ELSE /\ pc' = [pc EXCEPT ![p] = "done"]
                     /\ result' = [result EXCEPT ![p] =
                                     [status |-> "200", error |-> "",
                                      id |-> id_ruta[p][1]]]
    /\ UNCHANGED <<rutas_activas, rutas_seq, EXCEL_FILE, CSV_FILE, now, used, tx,
                   df, idx, before, after, complete, overlapped, regVars,
                   payload, id_ruta, authVars>>

\* The request bodies of the edits.
EditPayload(i, l, c, lt, n) ==
    [NoPayload EXCEPT !.id = i, !.nombre_lookup = l, !.camion = c,
                      !.litros = lt, !.nombre = n]

PayloadsOf(e) ==
    IF e = "e1"
    THEN {NoPayload,
          EditPayload(None, Some(""), Some("A3"), None, None),
          EditPayload(Some(1), None, Some("A3"), None, None),
          EditPayload(Some(9), None, None, Some(500), None),
          EditPayload(None, Some("ANA"), None, Some(500), Some("ANITA")),
          EditPayload(None, Some("ZOE"), None, Some(500), None),
          EditPayload(Some(2), Some("LUIS"), None, None, None)}
    ELSE IF e = "e2"
    THEN {EditPayload(Some(1), None, Some("A4"), Some(700), None),
          EditPayload(None, Some("ANA"), Some("A5"), None, None),
          EditPayload(None, Some("LUIS"), None, None, Some("ANA"))}
    ELSE {NoPayload,
          EditPayload(None, Some("EVA"), None, Some(900), None),
          EditPayload(Some(7), None, Some("A1"), None, None)}

\* The two tables before the edits: two households share the name ANA.
InitTablas ==
    [ruta_activa |-> {RutaRow(1, "A1", "ANA", 1000),
                      RutaRow(2, "A2", "ANA", 2000),
                      RutaRow(3, "M1", "LUIS", 3000)},
     redistribucion |-> {RutaRow(1, "A1", "EVA", 500)}]

InitEdit ==
    /\ rutas_activas = {}
    /\ rutas_seq = 1
    /\ EXCEL_FILE = NoFile
    /\ CSV_FILE = NoFile
    /\ now = 0
    /\ used = {}
    /\ tx = [p \in Procs |-> NoTx]
    /\ pc = [p \in Procs |-> "start"]
    /\ df = [p \in Procs |-> <<>>]
    /\ idx = [p \in Procs |-> 1]
    /\ result = [p \in Procs |-> [status |-> "", rows |-> 0, error |-> ""]]
    /\ before = [p \in Procs |-> {}]
    /\ after = [p \in Procs |-> {}]
    /\ complete = {rutas_activas}
    /\ overlapped = FALSE
    /\ DATA_MODE = "db"
    /\ RUTA_BASE = NoFile
    /\ punto = [p \in Procs |-> NoPunto]
    /\ tablas = InitTablas
    /\ ctx = [p \in Procs |-> NoCtx]
    /\ \E pl \in [Editors -> UNION {PayloadsOf(e) : e \in Editors}] :
          /\ \A e \in Editors : pl[e] \in PayloadsOf(e)
          /\ payload = [p \in Procs |-> IF p \in Editors THEN pl[p]
                                        ELSE NoPayload]
    /\ id_ruta = [p \in Procs |-> None]
    /\ IdleAuth

NextEdit ==
    \/ \E e \in Editors : EditStart(e)
    \/ \E e \in Editors : Ctx_enter(e)
    \/ \E e \in Editors : EditLookup(e)
    \/ \E e \in Editors : EditUpdate(e)
    \/ \E e \in Editors : Ctx_exit(e)

SpecEdit == InitEdit /\ [][NextEdit]_vars

\* ------------------------------------------- main.py: tokens, roles, users
\* The clock of this part counts minutes.
JWT_SECRET == "aguaruta_super_secreto"
JWT_EXP_MIN == 720

\* hmac.new(key, "<header>.<payload>", sha256).digest(): a value fixed by the
\* key and by the two signed parts, different for different ones.
Sign(key, header, claims) ==
    [key |-> key, header |-> header, payload |-> claims]

\* Lines 139-147: exp is added when the payload has none; the token is
\* header.payload.signature.
jwt_encode(claims, t) ==
    LET p == IF claims.exp = None
             THEN [claims EXCEPT !.exp = Some(t + JWT_EXP_MIN)]
             ELSE claims
    IN [parts |-> 3, header |-> "HS256", payload |-> p,
        sig |-> Sign(JWT_SECRET, "HS256", p)]

\* HTTPException(401) and HTTPException(403) of the dependencies.
Unauthorized == [status |-> "401", payload |-> NoClaims]
Forbidden == [status |-> "403", payload |-> NoClaims]

\* Lines 149-160: three parts, the signature recomputed with JWT_SECRET and
\* compared, exp (0 when absent) against the clock; any exception is a 401.
jwt_decode(token, t) ==
    IF token.parts # 3 THEN Unauthorized
    ELSE IF token.sig # Sign(JWT_SECRET, token.header, token.payload)
    THEN Unauthorized
    ELSE IF t > (IF token.payload.exp = None THEN 0 ELSE token.payload.exp[1])
    THEN Unauthorized
    ELSE [status |-> "ok", payload |-> token.payload]

\* Lines 162-165: the header must be there and start with "Bearer ".
require_auth(h, t) ==
    IF ~h.present \/ h.scheme # "Bearer" THEN Unauthorized
    ELSE jwt_decode(h.token, t)

\* require_admin without the test of the role.
require_admin_any_rol(h, t) == require_auth(h, t)

\* Lines 167-170: the decoded user must have rol admin.
require_admin(h, t) ==
    LET user == require_auth(h, t)
    IN IF user.status = "ok" /\ user.payload.rol # "admin" THEN Forbidden
       ELSE user

\* The endpoints declared with Depends(require_admin).
Guarded == {"i1"} \cup UserAdmins \cup Auditors

\* Depends(require_admin) runs before the handler: the request goes on to
\* the handler, or is answered 401 / 403 at once.
Depends_require_admin(p) ==
    /\ p \in Guarded
    /\ pc[p] = "auth"
    /\ LET user == require_admin(authorization[p], now)
       IN IF user.status = "ok"
          THEN /\ pc' = [pc EXCEPT ![p] = "start"]
               /\ UNCHANGED result
          ELSE /\ pc' = [pc EXCEPT ![p] = "refused"]
               /\ result' = [result EXCEPT ![p] =
                               [status |-> user.status,
                                error |-> "HTTPException"]]
    /\ UNCHANGED <<rutas_activas, rutas_seq, EXCEL_FILE, CSV_FILE, now, used, tx,
                   df, idx, before, after, complete, overlapped, regVars,
                   entVars, authVars>>

\* hashlib.sha256(password).hexdigest().
Hash(pw) == <<"sha256", pw>>

\* CHECK (rol IN ('admin','operador','visor')) of table usuarios.
Roles == {"admin", "operador", "visor"}

UserRow(u, pw, rol, active) ==
    [usuario |-> u, password_hash |-> Hash(pw), rol |-> rol, active |-> active]

\* user["sub"] of the request that passed the dependency.
SubOf(p) == authorization[p].token.payload.sub

\* audit_log (lines 175-189) in DB mode: the INSERT into auditoria, whose
\* usuario column references usuarios; when it fails the exception is logged
\* and swallowed, and the connection is not given back. A is the audit table,
\* T the users table at the time of the call.
AuditFails(T, user) == DATA_MODE = "db" /\ ~\E r \in T : r.usuario = user
audit_log(A, T, user, action) ==
    IF DATA_MODE = "db" /\ ~AuditFails(T, user)
    THEN Append(A, [usuario |-> Some(user), accion |-> action])
    ELSE A

\* Lines 323-332. The INSERT fails on an existing usuario (primary key) or on
\* a rol outside the CHECK; nothing catches it and db_put is skipped.
crear_usuario(p) ==
    /\ p \in UserAdmins
    /\ pc[p] = "start"
    /\ call[p].endpoint = "crear_usuario"
    /\ LET u == call[p]
           T == usuarios \cup {UserRow(u.usuario, u.password[1], u.rol[1], TRUE)}
       IN IF DATA_MODE # "db"
          THEN /\ pc' = [pc EXCEPT ![p] = "raised"]
               /\ result' = [result EXCEPT ![p] = [status |-> "400",
                                                    error |-> "HTTPException"]]
               /\ UNCHANGED <<usuarios, auditoria, used>>
          ELSE IF (\E r \in usuarios : r.usuario = u.usuario)
                     \/ u.rol[1] \notin Roles
          THEN /\ pc' = [pc EXCEPT ![p] = "raised"]
               /\ result' = [result EXCEPT ![p] = [status |-> "500",
                                                    error |-> "IntegrityError"]]
               /\ used' = used \cup {p}
               /\ UNCHANGED <<usuarios, auditoria>>
          ELSE /\ usuarios' = T
               /\ auditoria' = audit_log(auditoria, T, SubOf(p), "crear_usuario")
               /\ used' = IF AuditFails(T, SubOf(p)) THEN used \cup {p} ELSE used
               /\ pc' = [pc EXCEPT ![p] = "done"]
               /\ result' = [result EXCEPT ![p] = [status |-> "ok",
                                                    error |-> ""]]
    /\ UNCHANGED <<rutas_activas, rutas_seq, EXCEL_FILE, CSV_FILE, now, tx,
                   df, idx, before, after, complete, overlapped, regVars,
                   entVars, entregas_app, authorization, call>>

\* Lines 344-360: the SET list holds the fields that are not None; with none
\* the handler answers updated 0 without a statement, otherwise updated 1.
actualizar_usuario(p) ==
    /\ p \in UserAdmins
    /\ pc[p] = "start"
    /\ call[p].endpoint = "actualizar_usuario"
    /\ LET u == call[p]
           T == {IF r.usuario = u.usuario
                 THEN [usuario |-> r.usuario,
                       password_hash |-> IF u.password = None
                                         THEN r.password_hash
                                         ELSE Hash(u.password[1]),
                       rol |-> IF u.rol = None THEN r.rol ELSE u.rol[1],
                       active |-> IF u.active = None THEN r.active
                                  ELSE u.active[1]]
                 ELSE r : r \in usuarios}
       IN IF DATA_MODE # "db"
          THEN /\ pc' = [pc EXCEPT ![p] = "raised"]
               /\ result' = [result EXCEPT ![p] = [status |-> "400",
                                                    error |-> "HTTPException"]]
               /\ UNCHANGED <<usuarios, auditoria, used>>
          ELSE IF u.password = None /\ u.rol = None /\ u.active = None
          THEN /\ pc' = [pc EXCEPT ![p] = "done"]
               /\ result' = [result EXCEPT ![p] = [status |-> "ok",
                                                    error |-> "", updated |-> 0]]
               /\ UNCHANGED <<usuarios, auditoria, used>>
          ELSE IF \E r \in T : r.rol \notin Roles
          THEN /\ pc' = [pc EXCEPT ![p] = "raised"]
               /\ result' = [result EXCEPT ![p] = [status |-> "500",
                                                    error |-> "IntegrityError"]]
               /\ used' = used \cup {p}
               /\ UNCHANGED <<usuarios, auditoria>>
          ELSE /\ usuarios' = T
               /\ auditoria' = audit_log(auditoria, T, SubOf(p),
                                         "actualizar_usuario")
               /\ used' = IF AuditFails(T, SubOf(p)) THEN used \cup {p} ELSE used
               /\ pc' = [pc EXCEPT ![p] = "done"]
               /\ result' = [result EXCEPT ![p] = [status |-> "ok",
                                                    error |-> "", updated |-> 1]]
    /\ UNCHANGED <<rutas_activas, rutas_seq, EXCEL_FILE, CSV_FILE, now, tx,
                   df, idx, before, after, complete, overlapped, regVars,
                   entVars, entregas_app, authorization, call>>

\* Lines 362-369: DELETE FROM usuarios; the audit rows of the deleted user
\* keep their place with usuario NULL (ON DELETE SET NULL).
eliminar_usuario(p) ==
    /\ p \in UserAdmins
    /\ pc[p] = "start"
    /\ call[p].endpoint = "eliminar_usuario"
    /\ LET u == call[p]
           T == {r \in usuarios : r.usuario # u.usuario}
           A == [i \in 1..Len(auditoria) |->
                    IF auditoria[i].usuario = Some(u.usuario)
                    THEN [auditoria[i] EXCEPT !.usuario = None]
                    ELSE auditoria[i]]
       IN IF DATA_MODE # "db"
          THEN /\ pc' = [pc EXCEPT ![p] = "raised"]
               /\ result' = [result EXCEPT ![p] = [status |-> "400",
                                                    error |-> "HTTPException"]]
               /\ UNCHANGED <<usuarios, auditoria, used>>
          ELSE /\ usuarios' = T
               /\ auditoria' = audit_log(A, T, SubOf(p), "eliminar_usuario")
               /\ used' = IF AuditFails(T, SubOf(p)) THEN used \cup {p} ELSE used
               /\ pc' = [pc EXCEPT ![p] = "done"]
               /\ result' = [result EXCEPT ![p] = [status |-> "ok",
                                                    error |-> ""]]
    /\ UNCHANGED <<rutas_activas, rutas_seq, EXCEL_FILE, CSV_FILE, now, tx,
                   df, idx, before, after, complete, overlapped, regVars,
                   entVars, entregas_app, authorization, call>>

\* Lines 334-342: the users as {usuario, rol, active} (the fixed admin entry
\* outside DB mode).
listar_usuarios(p) ==
    /\ p \in Auditors
    /\ pc[p] = "start"
    /\ call[p].endpoint = "listar_usuarios"
    /\ result' = [result EXCEPT ![p] =
                    [status |-> "ok", error |-> "",
                     data |-> IF DATA_MODE # "db"
                              THEN {[usuario |-> "admin", rol |-> "admin",
                                     active |-> TRUE]}
                              ELSE {[usuario |-> r.usuario, rol |-> r.rol,
                                     active |-> r.active] : r \in usuarios}]]
    /\ pc' = [pc EXCEPT ![p] = "done"]
    /\ UNCHANGED <<rutas_activas, rutas_seq, EXCEL_FILE, CSV_FILE, now, used, tx,
                   df, idx, before, after, complete, overlapped, regVars,
                   entVars, authVars>>

\* SELECT camion, SUM(litros) FROM entregas_app ... GROUP BY camion.
RECURSIVE SumaLitros(_)
SumaLitros(S) == IF S = {} THEN 0
                 ELSE LET r == CHOOSE x \in S : TRUE
                      IN r.litros + SumaLitros(S \ {r})
LitrosPorCamion(E) ==
    {[camion |-> c, litros |-> SumaLitros({r \in E : r.camion = c})] :
        c \in {r.camion : r \in E}}

\* Lines 679-707: the weekly litres per vehicle as a file; a formato other
\* than excel or pdf is answered 400.
export_estadisticas(p) ==
    /\ p \in Auditors
    /\ pc[p] = "start"
    /\ call[p].endpoint = "export_estadisticas"
    /\ IF call[p].formato \in {"excel", "pdf"}
       THEN /\ result' = [result EXCEPT ![p] =
                            [status |-> "ok", error |-> "",
                             data |-> IF DATA_MODE = "db"
                                      THEN LitrosPorCamion(entregas_app)
                                      ELSE {[camion |-> "A1", litros |-> 0]}]]
            /\ pc' = [pc EXCEPT ![p] = "done"]
       ELSE /\ result' = [result EXCEPT ![p] = [status |-> "400",
                                                 error |-> "HTTPException"]]
            /\ pc' = [pc EXCEPT ![p] = "raised"]
    /\ UNCHANGED <<rutas_activas, rutas_seq, EXCEL_FILE, CSV_FILE, now, used, tx,
                   df, idx, before, after, complete, overlapped, regVars,
                   entVars, authVars>>

\* ORDER BY ts_utc DESC: the audit rows, latest first; an empty list outside
\* DB mode.
AuditRows ==
    IF DATA_MODE # "db" THEN <<>>
    ELSE [i \in 1..Len(auditoria) |-> auditoria[Len(auditoria) + 1 - i]]

\* Lines 712-732.
auditoria_list(p) ==
    /\ p \in Auditors
    /\ pc[p] = "start"
    /\ call[p].endpoint = "auditoria_list"
    /\ result' = [result EXCEPT ![p] = [status |-> "ok", error |-> "",
                                        data |-> AuditRows]]
    /\ pc' = [pc EXCEPT ![p] = "done"]
    /\ UNCHANGED <<rutas_activas, rutas_seq, EXCEL_FILE, CSV_FILE, now, used, tx,
                   df, idx, before, after, complete, overlapped, regVars,
                   entVars, authVars>>

\* Lines 734-753: the rows of auditoria_list as a file.
auditoria_export(p) ==
    /\ p \in Auditors
    /\ pc[p] = "start"
    /\ call[p].endpoint = "auditoria_export"
    /\ IF call[p].formato \in {"excel", "pdf"}
       THEN /\ result' = [result EXCEPT ![p] = [status |-> "ok", error |-> "",
                                                 data |-> AuditRows]]
            /\ pc' = [pc EXCEPT ![p] = "done"]
       ELSE /\ result' = [result EXCEPT ![p] = [status |-> "400",
                                                 error |-> "HTTPException"]]
            /\ pc' = [pc EXCEPT ![p] = "raised"]
    /\ UNCHANGED <<rutas_activas, rutas_seq, EXCEL_FILE, CSV_FILE, now, used, tx,
                   df, idx, before, after, complete, overlapped, regVars,
                   entVars, authVars>>

\* --------------------------------------- main.py: registrar_entrega_app
\* The fecha strings the store accepts as TIMESTAMPTZ.
Timestamps == {"2026-01-05"}

\* Lines 504-549. In DB mode the INSERT ... RETURNING id runs inside
\* try/except Exception: a failure is logged, new_id stays None and the
\* connection is not given back; outside DB mode nothing is stored. The actor
\* is the sub of a decodable Bearer token, else "invitado"; audit_log; then
\* status ok with new_id, whatever happened.
registrar_entrega_app(t) ==
    /\ t \in Deliverers
    /\ pc[t] = "start"
    /\ LET c == call[t]
           stored == DATA_MODE = "db" /\ c.fecha \in Timestamps
           id == Cardinality(entregas_app) + 1
           h == authorization[t]
           user == require_auth(h, now)
           actor == IF user.status = "ok" THEN user.payload.sub ELSE "invitado"
       IN /\ entregas_app' =
                IF stored
                THEN entregas_app \cup {[id |-> id, nombre |-> c.nombre,
                                         camion |-> c.camion,
                                         litros |-> c.litros, fecha |-> c.fecha]}
                ELSE entregas_app
          /\ auditoria' = audit_log(auditoria, usuarios, actor,
                                    "registrar_entrega")
          /\ used' = IF (DATA_MODE = "db" /\ ~stored)
                          \/ AuditFails(usuarios, actor)
                     THEN used \cup {t} ELSE used
          /\ result' = [result EXCEPT ![t] =
                          [status |-> "ok", error |-> "",
                           id |-> IF stored THEN Some(id) ELSE None]]
    /\ pc' = [pc EXCEPT ![t] = "done"]
    /\ UNCHANGED <<rutas_activas, rutas_seq, EXCEL_FILE, CSV_FILE, now, tx,
                   df, idx, before, after, complete, overlapped, regVars,
                   entVars, usuarios, authorization, call>>

\* ------------------------------------------------ the requests of this part
Bearer(tok) == [present |-> TRUE, scheme |-> "Bearer", token |-> tok]
Claims(sub, rol) == [sub |-> sub, rol |-> rol, exp |-> None]

\* Tokens the login issued to the administrator and to an operator, at
\* different times.
AdminToken == jwt_encode(Claims("admin", "admin"), 900)
AdminTokenEdge == jwt_encode(Claims("admin", "admin"), 280)
AdminTokenOld == jwt_encode(Claims("admin", "admin"), 100)
OperToken == jwt_encode(Claims("ana", "operador"), 900)

\* Headers a request may carry: none, empty, another scheme, a lower-case
\* scheme, the login's tokens, and tokens made by someone else: signed with
\* another key, a payload changed after signing, not three parts, no exp.
AuthHeaders ==
    {NoHeader,
     [present |-> TRUE, scheme |-> "", token |-> NoToken],
     [present |-> TRUE, scheme |-> "Basic", token |-> NoToken],
     [present |-> TRUE, scheme |-> "bearer", token |-> AdminToken],
     Bearer(AdminToken), Bearer(AdminTokenEdge), Bearer(AdminTokenOld),
     Bearer(OperToken),
     Bearer([AdminToken EXCEPT !.sig.key = "otro"]),
     Bearer([OperToken EXCEPT !.payload.rol = "admin"]),
     Bearer([NoToken EXCEPT !.parts = 1]),
     Bearer([parts |-> 3, header |-> "HS256",
             payload |-> Claims("admin", "admin"),
             sig |-> Sign(JWT_SECRET, "HS256", Claims("admin", "admin"))])}

CallTo(ep) == [NoCall EXCEPT !.endpoint = ep]

\* Each request as the pair of its header and its call.
RequestsOf(p) ==
    IF p \in UserAdmins
    THEN {<<h, [CallTo("crear_usuario") EXCEPT !.usuario = "eva",
                  !.password = Some("x"), !.rol = Some("visor")]>> :
              h \in AuthHeaders}
         \cup {<<h, c>> : h \in {Bearer(AdminToken), Bearer(OperToken)},
                          c \in {[CallTo("crear_usuario") EXCEPT
                                     !.usuario = "ana", !.password = Some("y"),
                                     !.rol = Some("operador")],
                                 [CallTo("actualizar_usuario") EXCEPT
                                     !.usuario = "ana", !.rol = Some("admin")],
                                 [CallTo("actualizar_usuario") EXCEPT
                                     !.usuario = "ana"],
                                 [CallTo("eliminar_usuario") EXCEPT
                                     !.usuario = "admin"]}}
    ELSE IF p \in Auditors
    THEN {<<h, c>> : h \in {Bearer(AdminToken), Bearer(OperToken)},
                     c \in {CallTo("listar_usuarios"),
                            CallTo("export_estadisticas"),
                            [CallTo("export_estadisticas") EXCEPT
                                !.formato = "csv"],
                            CallTo("auditoria_list"),
                            CallTo("auditoria_export")}}
    ELSE IF p \in Deliverers
    THEN {<<NoHeader, [CallTo("registrar_entrega_app") EXCEPT
                          !.nombre = "ANA", !.camion = "A1", !.litros = 1000,
                          !.fecha = "2026-01-05"]>>,
          <<Bearer(OperToken), [CallTo("registrar_entrega_app") EXCEPT
                          !.nombre = "ANA", !.camion = "A1", !.litros = 1000,
                          !.fecha = "2026-01-05"]>>,
          <<Bearer(OperToken), [CallTo("registrar_entrega_app") EXCEPT
                          !.nombre = "ANA", !.camion = "A1", !.litros = 1000,
                          !.fecha = "ayer"]>>}
    ELSE IF p = "i1"
    THEN {<<h, CallTo("importar_excel_a_db")>> :
              h \in {NoHeader, Bearer(OperToken), Bearer(AdminTokenEdge)}}
    ELSE {<<NoHeader, NoCall>>}

InitAuth ==
    /\ rutas_activas = StoredRows(<<RowProt>>, 0)
    /\ rutas_seq = 2
    /\ EXCEL_FILE = FileOf(<<RowAna>>)
    /\ CSV_FILE = NoFile
    /\ now = 1000
    /\ used = {}
    /\ tx = [p \in Procs |-> NoTx]
    /\ pc = [p \in Procs |-> IF p \in Guarded THEN "auth" ELSE "start"]
    /\ df = [p \in Procs |-> <<>>]
    /\ idx = [p \in Procs |-> 1]
    /\ result = [p \in Procs |-> [status |-> "", rows |-> 0, error |-> ""]]
    /\ before = [p \in Procs |-> {}]
    /\ after = [p \in Procs |-> {}]
    /\ complete = {rutas_activas}
    /\ overlapped = FALSE
    /\ DATA_MODE \in {"db", "excel"}
    /\ RUTA_BASE = NoFile
    /\ punto = [p \in Procs |-> NoPunto]
    /\ IdleEdit
    /\ usuarios = {UserRow("admin", "admin", "admin", TRUE),
                   UserRow("ana", "x", "operador", TRUE)}
    /\ auditoria = <<[usuario |-> Some("admin"), accion |-> "login"],
                     [usuario |-> Some("ana"), accion |-> "login"]>>
    /\ entregas_app = {[id |-> 1, nombre |-> "LUIS", camion |-> "A1",
                        litros |-> 500, fecha |-> "2026-01-05"]}
    /\ \E ru \in RequestsOf("u1"), ra \in RequestsOf("u2"),
          rt \in RequestsOf("t1"), ri \in RequestsOf("i1") :
          LET rq == [p \in Procs |->
                       IF p = "u1" THEN ru ELSE IF p = "u2" THEN ra
                       ELSE IF p = "t1" THEN rt ELSE IF p = "i1" THEN ri
                       ELSE <<NoHeader, NoCall>>]
          IN /\ authorization = [p \in Procs |-> rq[p][1]]
             /\ call = [p \in Procs |-> rq[p][2]]

NextAuth ==
    \/ \E p \in Guarded : Depends_require_admin(p)
    \/ \E p \in UserAdmins : crear_usuario(p)
    \/ \E p \in UserAdmins : actualizar_usuario(p)
    \/ \E p \in UserAdmins : eliminar_usuario(p)
    \/ \E p \in Auditors : listar_usuarios(p)
    \/ \E p \in Auditors : export_estadisticas(p)
    \/ \E p \in Auditors : auditoria_list(p)
    \/ \E p \in Auditors : auditoria_export(p)
    \/ \E t \in Deliverers : registrar_entrega_app(t)
    \/ ReadFiles("i1")
    \/ Truncate("i1")
    \/ InsertRow("i1")
    \/ Commit("i1")
    \/ WriteExcel("i1")
    \/ WriteCsv("i1")
    \/ ImportReturn("i1")

SpecAuth == InitAuth /\ [][NextAuth]_vars

\* ================================================================== claims
\* The import of p has committed.
Committed(p) == pc[p] \in {"write_excel", "write_csv", "return", "done"}
IsProtected(r) == r.camion = ProtectedCode
Pair(r) == <<r.camion, r.dia_asignado>>

\* C1: every protected-vehicle row stored before a bulk replace is still
\* stored, with identical field values, right after it.
C1_ProtectedRowsPreserved ==
    \A p \in Importers :
        Committed(p) => \A r \in before[p] : IsProtected(r) => r \in after[p]

\* C2: a step of the bulk apply that fails rolls the whole transaction back
\* (nothing stays open on the connection) and leaves the live table as it was.
C2_FailureRollsBack ==
    [][\A p \in Importers :
          (pc[p] # "raised" /\ pc'[p] = "raised")
              => (tx'[p] = NoTx /\ rutas_activas' = rutas_activas)]_vars

\* C3: whatever a reader fetches while imports run is a complete table: the
\* table from before any replace, or the full result of a replace; never the
\* cleared table or a part of a batch.
C3_ReaderSeesCompleteTable ==
    \A r \in Readers :
        pc[r] # "start"
            => \E T \in complete : df[r] = Frame(T)

\* C3 witness: the reader fetched the result of a replace that changed the
\* table, while the other import was in flight.
C3_Witness ==
    \E r \in Readers, p \in Importers, q \in Importers :
        /\ p # q
        /\ Committed(p) /\ InFlight(q)
        /\ pc[r] # "start"
        /\ after[p] # {} /\ before[p] # {}
        /\ df[r] = Frame(after[p])

\* C4: an import whose batch is empty leaves the live table unchanged and
\* does not report ok.
C4_EmptyBatchLeavesTable ==
    \A p \in Importers :
        (pc[p] = "done" /\ df[p] = <<>>)
            => (after[p] = before[p] /\ result[p].status # "ok")

\* C5: a row-level parse failure never happens after the store was written:
\* when a cell fails to convert, the import has cleared and inserted nothing.
C5_NoWriteBeforeValidation ==
    \A p \in Importers :
        result[p].error = "ValueError" => tx[p].status = "none"

C8_SameBatchSameTable ==
    \A p \in Importers, q \in Importers :
        (Committed(p) /\ Committed(q) /\ df[p] = df[q])
            => DataOf(after[p]) = DataOf(after[q])

\* C8 witness: the same non-empty batch was applied twice, one apply after
\* the other.
C8_Witness ==
    /\ ~overlapped
    /\ \A p \in Importers : pc[p] = "done"
    /\ \E p \in Importers, q \in Importers :
          p # q /\ df[p] = df[q] /\ Len(df[p]) > 0 /\ after[p] # after[q]

\* C9: in the set an import stores, each household name occurs in exactly one
\* row, so with exactly one (vehicle, day) pair.
C9_OneRowPerHousehold ==
    \A p \in Importers :
        Committed(p)
            => \A r1 \in after[p], r2 \in after[p] :
                  r1.nombre = r2.nombre => r1 = r2

\* The (vehicle, day) pair of the first row of a batch that names a household.
FirstPair(batch, name) ==
    LET i == CHOOSE k \in 1..Len(batch) :
                 /\ batch[k].nombre = name
                 /\ \A m \in 1..(k - 1) : batch[m].nombre # name
    IN <<batch[i].camion, batch[i].dia>>

\* C10: when two rows of the batch name the same household with different
\* (vehicle, day) pairs, the report holds exactly one conflict and every row
\* stored for that household carries the first pair of the batch.
C10_FirstPairWins ==
    \A p \in Importers :
        pc[p] = "done" =>
            \A i \in 1..Len(df[p]), j \in 1..Len(df[p]) :
                (i < j /\ df[p][i].nombre = df[p][j].nombre
                       /\ <<df[p][i].camion, df[p][i].dia>>
                              # <<df[p][j].camion, df[p][j].dia>>)
                    => /\ "conflicts" \in DOMAIN result[p]
                       /\ result[p].conflicts = 1
                       /\ \A r \in after[p] :
                             r.nombre = df[p][i].nombre
                                 => Pair(r) = FirstPair(df[p], r.nombre)


\* The rows of the store a registration writes to.
HasPoint(rows, name) == \E i \in 1..Len(rows) : rows[i].nombre = name
CountPoint(rows, name) == Cardinality({i \in 1..Len(rows) : rows[i].nombre = name})

\* C7: every registration that answered success has its point in the store,
\* exactly once, and no two stored points share an identifier.
C7_RegistrationsKept ==
    /\ \A g \in Registrars :
          pc[g] = "done" => CountPoint(RUTA_BASE.rows, g) = 1
    /\ \A a \in Adders :
          pc[a] = "done" =>
              IF DATA_MODE = "db"
              THEN Cardinality({r \in rutas_activas : r.nombre = a}) = 1
              ELSE CountPoint(EXCEL_FILE.rows, a) = 1
    /\ \A r1 \in rutas_activas, r2 \in rutas_activas : r1.id = r2.id => r1 = r2
    /\ DATA_MODE # "db" =>
          \A i \in 1..Len(EXCEL_FILE.rows), j \in 1..Len(EXCEL_FILE.rows) :
              EXCEL_FILE.rows[i].id = EXCEL_FILE.rows[j].id => i = j

\* --------------------------------------------- what the bulk import accepts
Weekdays == {"LUNES", "MARTES", "MIERCOLES", "JUEVES", "VIERNES", "SABADO",
             "DOMINGO"}

\* Coordinates are kept in tenths of a degree.
LatInRange(x) == x.k = "num" /\ x.v >= -900 /\ x.v <= 900
LonInRange(x) == x.k = "num" /\ x.v >= -1800 /\ x.v <= 1800

\* A stored row that is an acceptable delivery point.
ValidStored(r) ==
    /\ r.nombre # ""
    /\ r.camion \in CAMION_COLORS
    /\ r.dia_asignado \in Weekdays
    /\ r.litros_entrega.k = "num" /\ r.litros_entrega.v > 0
    /\ (notna(r.latitud) \/ notna(r.longitud))
          => (LatInRange(r.latitud) /\ LonInRange(r.longitud))

\* C11: every row a bulk import stores has a non-empty name, a vehicle code of
\* the roster, a recognized weekday, liters > 0 and, when a coordinate is
\* present, both coordinates within range.
C11_StoredRowsValid ==
    \A p \in Importers :
        Committed(p) => \A r \in after[p] : ValidStored(r)

\* C12: a row of the batch whose vehicle code is the protected code is
\* rejected with the protected-vehicle reason: it is not stored and the report
\* counts it under that reason.
C12_ProtectedRowsRejected ==
    \A p \in Importers :
        (pc[p] = "done" /\ \E i \in 1..Len(df[p]) : df[p][i].camion = ProtectedCode)
            => /\ \A r \in after[p] : ~IsProtected(r)
               /\ "motivos" \in DOMAIN result[p]
               /\ result[p].motivos.vehiculo_protegido
                      = Cardinality({i \in 1..Len(df[p]) :
                                        df[p][i].camion = ProtectedCode})

\* C13: a row that is rejected never stops the batch: once the call has
\* answered or has met a bad row, every row read was gone through, each one
\* either stored or omitted.
C13_BadRowNeverHalts ==
    \A p \in Importers :
        (pc[p] = "done" \/ result[p].error = "ValueError")
            => idx[p] - 1 = Len(df[p])

\* The source sync_files_to_db would read can be read: the Excel file when it
\* exists, else the CSV file.
SourceUsable ==
    IF EXCEL_FILE.exists THEN EXCEL_FILE.parsable
    ELSE CSV_FILE.exists /\ CSV_FILE.parsable

\* The step with which import p leaves its start while its source is missing
\* or unparsable.
SourceFails(p) == pc[p] = "start" /\ pc'[p] # "start" /\ ~SourceUsable

\* The call ends there, before any processing: no connection, no transaction,
\* table, sequence and files as they were, an error for the caller.
FailsBeforeProcessing(p) ==
    /\ pc'[p] \in {"http404", "raised"}
    /\ result'[p].status \in {"404", "500"}
    /\ UNCHANGED <<rutas_activas, rutas_seq, EXCEL_FILE, CSV_FILE, tx, used, df>>

\* C14 (as amended): an import whose source is missing or unparsable fails
\* before any processing: nothing is written, the live table is unchanged, and
\* the caller gets an HTTP error (404 or 500) that carries no counts.
C14_SourceFailureStopsCall ==
    [][\A p \in Importers :
          SourceFails(p)
              => (FailsBeforeProcessing(p) /\ "rows" \notin DOMAIN result'[p])]_vars

\* C14 witness: an import has failed on a missing source while the table
\* holds rows.
C14_Witness ==
    \E p \in Importers : pc[p] = "http404" /\ rutas_activas # {}

\* C14 (as stated): ... and the failure is reported to the caller with all
\* counts at zero.
C14_FailureReportsZeroCounts ==
    [][\A p \in Importers :
          SourceFails(p)
              => /\ FailsBeforeProcessing(p)
                 /\ "rows" \in DOMAIN result'[p]
                 /\ result'[p].rows = 0]_vars

\* The rows import p has inserted into the live table.
Inserted(p) == IF Committed(p) THEN Cardinality(after[p]) ELSE 0

\* C15: the answer of an import is not ok exactly when it inserted zero rows
\* (the nonempty guard is on by default) or when its transaction failed, and
\* ok in every other case.
C15_OkFlag ==
    \A p \in Importers :
        pc[p] \in Terminal
            => ((result[p].status # "ok")
                    <=> (Inserted(p) = 0
                         \/ result[p].error \in {"ValueError", "DatabaseError"}))

\* ------------------------------------------- single-point registration claims
\* The base rows registration g read (the frame it wrote, without its own
\* row) and the row it added.
BaseRead(g) == SubSeq(df[g], 1, Len(df[g]) - 1)
RowAdded(g) == df[g][Len(df[g])]

\* A stored point that has a vehicle code and both coordinates.
IsCandidate(r) == r.id_camion # "" /\ r.latitud.k = "num" /\ r.longitud.k = "num"
Candidates(rows) == {i \in 1..Len(rows) : IsCandidate(rows[i])}

\* Squared distance in tenths of a degree. The sample points lie on one
\* meridian, where it orders pairs of points as the great-circle distance does.
Dist2(r, q) == (r.latitud.v - q.latitud.v) * (r.latitud.v - q.latitud.v)
                 + (r.longitud.v - q.longitud.v) * (r.longitud.v - q.longitud.v)

\* The nearest candidate, the first in stored order among the equally near.
Nearest(rows, q) ==
    rows[CHOOSE k \in Candidates(rows) :
            /\ \A m \in Candidates(rows) : Dist2(rows[k], q) <= Dist2(rows[m], q)
            /\ \A m \in Candidates(rows) :
                  m < k => Dist2(rows[m], q) > Dist2(rows[k], q)]

\* Several candidates are at the minimal distance.
HasTie(rows, q) ==
    \E k \in Candidates(rows), m \in Candidates(rows) :
        /\ k # m
        /\ Dist2(rows[k], q) = Dist2(rows[m], q)
        /\ \A n \in Candidates(rows) : Dist2(rows[k], q) <= Dist2(rows[n], q)

\* C16: a registration with no forced vehicle gets the vehicle of the nearest
\* stored candidate, and that point's day when the caller gave none, the
\* caller's day otherwise.
C16_InheritsNearest ==
    \A g \in Registrars :
        (pc[g] = "done" /\ Candidates(BaseRead(g)) # {})
            => LET ref == Nearest(BaseRead(g), punto[g]) IN
                  /\ RowAdded(g).id_camion = ref.id_camion
                  /\ result[g].camion_asignado = ref.id_camion
                  /\ RowAdded(g).dia = IF punto[g].dia = "" THEN ref.dia
                                       ELSE punto[g].dia

\* C17: when several stored points are equally near, the registration gets
\* the vehicle of the one that comes first in stored order.
C17_TieTakesFirstStored ==
    \A g \in Registrars :
        (pc[g] = "done" /\ HasTie(BaseRead(g), punto[g]))
            => result[g].camion_asignado
                   = Nearest(BaseRead(g), punto[g]).id_camion

\* C18: with no candidate in the store, the registration gets the default
\* vehicle and the caller's own day (none when the caller gave none), and the
\* answer names no reference point.
C18_EmptyStoreDefault ==
    \A g \in Registrars :
        (pc[g] = "done" /\ Candidates(BaseRead(g)) = {})
            => /\ RowAdded(g).id_camion = CAMIONES_VALIDOS[1]
               /\ RowAdded(g).dia = punto[g].dia
               /\ "referencia" \notin DOMAIN result[g]

\* A request body a registration may accept.
ValidPunto(q) ==
    /\ q.nombre # ""
    /\ q.litros.k = "num" /\ q.litros.v > 0
    /\ notna(q.latitud) => LatInRange(q.latitud)
    /\ notna(q.longitud) => LonInRange(q.longitud)

\* The point of request q is in the store its handler writes to.
InBase(q) ==
    \E i \in 1..Len(RUTA_BASE.rows) :
        /\ RUTA_BASE.rows[i].nombre = q.nombre
        /\ RUTA_BASE.rows[i].litros = q.litros
        /\ RUTA_BASE.rows[i].latitud = q.latitud
InRutas(q) ==
    IF DATA_MODE = "db"
    THEN \E r \in rutas_activas :
            r.nombre = q.nombre /\ r.litros_entrega = q.litros
    ELSE \E i \in 1..Len(EXCEL_FILE.rows) :
            /\ EXCEL_FILE.rows[i].nombre = q.nombre
            /\ EXCEL_FILE.rows[i].litros = q.litros
            /\ EXCEL_FILE.rows[i].latitud = q.latitud

\* C19: a registration with a blank name, liters <= 0 or a coordinate out of
\* range does not succeed and inserts nothing.
C19_InvalidRegistrationFails ==
    /\ \A g \in Registrars :
          (punto[g] # NoPunto /\ ~ValidPunto(punto[g]))
              => (pc[g] # "done" /\ ~InBase(punto[g]))
    /\ \A a \in Adders :
          (punto[a] # NoPunto /\ ~ValidPunto(punto[a]))
              => (pc[a] # "done" /\ ~InRutas(punto[a]))

\* The vehicles that may be assigned: the valid roster.
Roster == {CAMIONES_VALIDOS[i] : i \in 1..Len(CAMIONES_VALIDOS)}

\* C20: every vehicle code that the bulk redistribution or the automatic
\* single-point assignment gives out is in the valid roster and is not the
\* protected code.
C20_AssignedInRoster ==
    /\ \A d \in Redistributors :
          "asignaciones" \in DOMAIN result[d]
              => \A i \in 1..Len(result[d].asignaciones) :
                    /\ result[d].asignaciones[i].camion_asignado \in Roster
                    /\ result[d].asignaciones[i].camion_asignado # ProtectedCode
    /\ \A g \in Registrars :
          pc[g] \in {"write_base", "done"}
              => /\ RowAdded(g).id_camion \in Roster
                 /\ RowAdded(g).id_camion # ProtectedCode
    /\ \A g \in Registrars :
          "camion_asignado" \in DOMAIN result[g]
              => /\ result[g].camion_asignado \in Roster
                 /\ result[g].camion_asignado # ProtectedCode

\* C20 witness: a redistribution has assigned two points, and a registration
\* into a base file that holds points has been assigned its vehicle.
C20_Witness ==
    /\ \E d \in Redistributors :
          pc[d] = "done" /\ "asignaciones" \in DOMAIN result[d]
                         /\ Len(result[d].asignaciones) = 2
    /\ \E g \in Registrars :
          pc[g] = "done" /\ Len(df[g]) > 1
                         /\ "camion_asignado" \in DOMAIN result[g]

\* ------------------------------------------------------- pool of main.py
\* C22: every connection a handler took with db_conn() is back in the pool
\* when the call has ended, whichever way it ended: no finished request holds
\* a connection.
C22_ConnectionsReturned ==
    \A p \in Procs : pc[p] \in Terminal => p \notin used

\* ------------------------------------------------- result of a bulk import
\* The source sync_files_to_db reads: the Excel file if it exists, otherwise
\* the CSV file.
SourceRows == IF EXCEL_FILE.exists THEN EXCEL_FILE.rows ELSE CSV_FILE.rows

\* The ids of a table, and its row of a given id.
IdsOf(T) == {r.id : r \in T}
RowOfId(T, i) == CHOOSE r \in T : r.id = i

\* C25: an import works on the rows of its source file as it read them (the
\* Excel file if it exists, otherwise the CSV); at its commit the table holds
\* exactly one row per file row, in file order with identifiers 1, 2, ...,
\* and no row from before; the count it returns is the number of rows stored.
C25_ImportStoresFile ==
    /\ [][\A p \in Importers :
            (pc[p] = "start" /\ pc'[p] = "truncate") => df'[p] = SourceRows]_vars
    /\ [](\A p \in Importers :
            Committed(p) =>
               /\ IdsOf(after[p]) = 1..Len(df[p])
               /\ Cardinality(after[p]) = Len(df[p])
               /\ \A i \in 1..Len(df[p]) :
                     LET r == RowOfId(after[p], i) IN
                        /\ r.camion = df[p][i].camion
                        /\ r.nombre = df[p][i].nombre
                        /\ r.dia_asignado = df[p][i].dia
                        /\ r.updated_at > 0
               /\ pc[p] = "done" =>
                     (result[p].status = "ok"
                        /\ result[p].rows = Cardinality(after[p])))

\* C25 witness: an import of two rows has answered, over a table that held
\* rows.
C25_Witness ==
    \E p \in Importers :
        /\ pc[p] = "done" /\ Len(df[p]) = 2 /\ before[p] # {}
        /\ result[p].rows = 2

\* ----------------------------------------------- backups of the routes table
\* C24: in DB mode, whenever no add of a route is in flight (every one that
\* was started has answered), the Excel backup and the CSV backup hold exactly
\* the rows of the rutas_activas table, in id order.
C24_BackupsMatchTable ==
    (DATA_MODE = "db" /\ \A a \in Adders : pc[a] \in {"start", "done"}) =>
        /\ EXCEL_FILE.rows = Frame(rutas_activas)
        /\ CSV_FILE.rows = Frame(rutas_activas)

\* ------------------------------------------------- registrar_nuevo_punto
\* C28: the step in which a registration stores its point turns the stored
\* table into the table as it was just before plus exactly the new row, and
\* the new row carries the first vehicle of CAMIONES_VALIDOS with the smallest
\* total of litres over that table.
C28_RegistrationAddsOneRow ==
    [][\A g \in Registrars :
          (pc[g] = "write_base" /\ pc'[g] = "done") =>
              /\ RUTA_BASE'.rows = Append(RUTA_BASE.rows, RowAdded(g))
              /\ RowAdded(g).id_camion = AsignarA(RUTA_BASE.rows)]_vars

\* ------------------------------------------------- get_conn_cursor, the edits
\* The table after the pending write w (none, or one row version) is applied.
Applied(T, w) ==
    IF w = <<>> THEN T
    ELSE [T EXCEPT ![w[1].tabla] = (@ \ {w[1].old}) \cup {w[1].new}]

\* C21: whenever a with block of get_conn_cursor() is left, the transaction
\* was committed if the block ended normally (its pending write is then in the
\* table, unless commit() itself failed) and rolled back if it raised (the
\* tables are as before), and in every case, a failing commit() or rollback()
\* included, putconn() has run exactly once for the getconn() of that block.
C21_ContextManager ==
    /\ [][\A p \in Procs :
             (ctx[p].open /\ ~ctx'[p].open) =>
                /\ ctx'[p].puts = ctx[p].puts + 1
                /\ ctx'[p].gets = ctx[p].gets
                /\ ctx[p].exc = "" =>
                      /\ ctx'[p].last \in {"commit", "commit_failed"}
                      /\ ctx'[p].last = "commit" =>
                            tablas' = Applied(tablas, ctx[p].write)
                /\ ctx[p].exc # "" =>
                      ctx'[p].last \in {"rollback", "rollback_failed"}
                /\ ctx'[p].last # "commit" => tablas' = tablas]_vars
    /\ [](\A p \in Procs :
             ctx[p].gets = ctx[p].puts + (IF ctx[p].open THEN 1 ELSE 0))

\* C21 witness: one context committed an edit, another was left through a
\* failing rollback(), a third through a failing commit(), and each has given
\* its connection back.
C21_Witness ==
    \E p \in Editors, q \in Editors, r \in Editors :
        /\ ctx[p].last = "commit" /\ tablas # InitTablas
        /\ ctx[q].last = "rollback_failed" /\ ~ctx[q].open
        /\ ctx[r].last = "commit_failed" /\ ~ctx[r].open /\ ctx[r].puts = 2

\* The request named no row: neither id nor a non-empty nombre_lookup.
NoKey(pl) == pl.id = None /\ pl.nombre_lookup \in {None, Some("")}

\* C26: an edit that named no row was answered 400 without touching the
\* store, and an edit whose lookup or UPDATE found no row (and whose
\* transaction was rolled back cleanly) was answered 404.
C26_MissingKeyOrRow ==
    \A e \in Editors :
        pc[e] \in {"done", "raised"} =>
           /\ NoKey(payload[e]) =>
                 (result[e].status = "400" /\ ctx[e].gets = 0)
           /\ (ctx[e].exc = "HTTPException404" /\ ctx[e].last = "rollback") =>
                 result[e].status = "404"

\* The row r with exactly the fields the payload supplies (non-null) replaced.
Given(x, old) == IF Len(x) = 0 THEN old ELSE Head(x)
Edited(pl, r) ==
    [id |-> r.id, camion |-> Given(pl.camion, r.camion),
     nombre |-> Given(pl.nombre, r.nombre), litros |-> Given(pl.litros, r.litros),
     dia |-> Given(pl.dia, r.dia), telefono |-> Given(pl.telefono, r.telefono),
     latitud |-> Given(pl.latitud, r.latitud),
     longitud |-> Given(pl.longitud, r.longitud)]

\* C27: the step that completes a successful editar_ruta replaces exactly one
\* row of ruta_activa, the one with the resolved id, by that row with the
\* non-null payload fields set, and changes nothing else in either table; the
\* resolved id is the payload's id, or the id of a row that had the looked-up
\* name when the lookup ran; and no other step of an edit changes a table.
C27_EditChangesOneRow ==
    /\ [][\A e \in EditoresRuta :
             (pc[e] = "update_exit" /\ pc'[e] = "done") =>
                \E r \in tablas.ruta_activa :
                   /\ r.id = id_ruta[e][1]
                   /\ \A r2 \in tablas.ruta_activa : r2.id = r.id => r2 = r
                   /\ tablas'.ruta_activa =
                         (tablas.ruta_activa \ {r}) \cup {Edited(payload[e], r)}
                   /\ tablas'.redistribucion = tablas.redistribucion
                   /\ result'[e].status = "200"
                   /\ result'[e].id = r.id]_vars
    /\ [][\A e \in EditoresRuta :
             (pc[e] = "lookup" /\ id_ruta'[e] # None) =>
                \E r \in tablas.ruta_activa :
                   /\ r.id = id_ruta'[e][1]
                   /\ r.nombre = payload[e].nombre_lookup[1]]_vars
    /\ [](\A e \in EditoresRuta :
             (payload[e].id # None /\ id_ruta[e] # None) =>
                id_ruta[e] = payload[e].id)
    /\ [][tablas' # tablas =>
             \E e \in Editors : pc[e] = "update_exit" /\ pc'[e] = "done"]_vars

\* C27 witness: the edit by name ANA has completed on the second of the two
\* rows called ANA: its litres and name are the payload's, its vehicle is
\* the old one, and the other ANA is still called ANA.
C27_Witness ==
    /\ pc["e1"] = "done"
    /\ payload["e1"].nombre_lookup = Some("ANA")
    /\ result["e1"].id = 2
    /\ \E r1 \in tablas.ruta_activa, r2 \in tablas.ruta_activa :
          /\ r1.id = 1 /\ r1.nombre = "ANA"
          /\ r2.id = 2 /\ r2.nombre = "ANITA" /\ r2.litros = 500
          /\ r2.camion = "A2"

\* ------------------------------------------------- deliveries of the app
\* C23: a delivery request answered with status ok has its row in
\* entregas_app, under the id the answer carries.
C23_OkMeansStored ==
    \A t \in Deliverers :
        (pc[t] = "done" /\ result[t].status = "ok") =>
            \E r \in entregas_app :
                /\ result[t].id = Some(r.id)
                /\ r.nombre = call[t].nombre

\* ------------------------------------------------------ admin-only endpoints
\* The token was signed by the service: three parts, and a signature made
\* with the service's key over this header and this payload.
ServerSigned(tok) ==
    /\ tok.parts = 3
    /\ tok.sig.key = JWT_SECRET
    /\ tok.sig.header = tok.header
    /\ tok.sig.payload = tok.payload

\* The token has not expired at time t (a token without exp expired at 0).
Unexpired(tok, t) ==
    t <= (IF Len(tok.payload.exp) = 0 THEN 0 ELSE Head(tok.payload.exp))

\* The header carries a Bearer token with a valid signature, not expired.
ValidBearer(h, t) ==
    /\ h.present /\ h.scheme = "Bearer"
    /\ ServerSigned(h.token)
    /\ Unexpired(h.token, t)

\* The state a user, import, export or audit request can act on.
AdminState == <<usuarios, auditoria, rutas_activas, rutas_seq, EXCEL_FILE,
                CSV_FILE, entregas_app, used, tx>>

\* C29: a request to a user, import, export or audit endpoint reaches its
\* handler only with a Bearer token that has a valid signature, is not
\* expired and has rol admin; without a valid token it is answered 401, with
\* a valid token of another role 403, and that step changes no state; a
\* refused request does nothing afterwards; users, routes and backup files
\* change, and user, statistics or audit data are returned, only in steps of
\* requests that passed.
C29_AdminOnly ==
    /\ [][\A p \in Guarded :
             (pc[p] = "auth" /\ pc'[p] # "auth") =>
                IF ValidBearer(authorization[p], now)
                      /\ authorization[p].token.payload.rol = "admin"
                THEN pc'[p] = "start"
                ELSE /\ pc'[p] = "refused"
                     /\ result'[p].status =
                           (IF ValidBearer(authorization[p], now) THEN "403"
                            ELSE "401")
                     /\ "data" \notin DOMAIN result'[p]
                     /\ UNCHANGED AdminState]_vars
    /\ [][\A p \in Guarded :
             pc[p] = "refused" =>
                (pc'[p] = "refused" /\ result'[p] = result[p])]_vars
    /\ [][(usuarios' # usuarios \/ rutas_activas' # rutas_activas
              \/ EXCEL_FILE' # EXCEL_FILE \/ CSV_FILE' # CSV_FILE
              \/ tx' # tx) =>
             \E p \in Guarded :
                /\ pc[p] \notin {"auth", "refused"}
                /\ pc'[p] # pc[p]]_vars
    /\ [](\A p \in Guarded :
             (pc[p] \notin {"auth", "refused"} \/ "data" \in DOMAIN result[p]) =>
                /\ pc[p] # "auth"
                /\ authorization[p].present
                /\ authorization[p].scheme = "Bearer"
                /\ ServerSigned(authorization[p].token)
                /\ authorization[p].token.payload.rol = "admin")

\* C29 witness: an administrator's request has created a user, an operator's
\* request to an audit or export endpoint was refused with 403, and the
\* import request without a token was refused with 401, the table untouched.
C29_Witness ==
    /\ pc["u1"] = "done" /\ \E r \in usuarios : r.usuario = "eva"
    /\ pc["u2"] = "refused" /\ result["u2"].status = "403"
    /\ pc["i1"] = "refused" /\ result["i1"].status = "401"
    /\ rutas_activas = StoredRows(<<RowProt>>, 0)

============================================================================
